---- MODULE Spec2Model ----
(***************************************************************************)
(* A model of the SemanticCache class (semantic-cache.ts): the similarity  *)
(* gate of get, the re-scoring and re-sorting of search, the lazy           *)
(* connection/table handles, and the writes and deletes it issues against   *)
(* the vector store.  The vector store (LanceDB) and the embedding          *)
(* provider are modelled by the calls the class makes on them.              *)
(***************************************************************************)
EXTENDS Integers, Sequences, FiniteSets, TLC

VARIABLES
  cfg,         \* per instance: the configuration resolved by the constructor
  connection,  \* per instance: this.connection is non-null
  table,       \* per instance: this.table is non-null
  store,       \* the vector store: per physical table name, its existence and rows
  last,        \* the last public operation: arguments, outcome and the store calls it made
  prev,        \* what the caller's previous operation was, as far as the next one depends on it
  lastWrite,   \* the last successful set, until a later write, flush or delete of its keys
  bulk,        \* the concurrent calls in progress (the lookups of a bulk get, or two sets), interleaved at their awaits
  fault,       \* the external call that fails during the last operation, if any
  args,        \* per instance: the config and environment of its constructor call, when a step made it
  provider     \* the last call of the provider factory: its config, environment and outcome

vars == <<cfg, connection, table, store, last, prev, lastWrite, bulk, fault, args, provider>>

----------------------------------------------------------------------------
\* Bounds of the model.

\* most rows one table may hold
MaxRows == 3
\* largest limit passed to search
MaxLimit == 2
\* longest key list of a bulk operation
MaxBulk == 2

----------------------------------------------------------------------------
\* Inputs: key texts, values, and the vectors a deterministic provider returns.

Insts == {1, 2}

Keys == {"k1", "k2", "k3", "k4"}

Values == {"v1", "v2"}

\* the value of a JavaScript `undefined` result
Absent == "undefined"

\* embed(text) of a deterministic provider: the same text always yields the
\* same vector.  k1 and k2 are parallel, k3 is at 45 degrees to both, and
\* k4 embeds to the zero vector.
Embedding(k) ==
  CASE k = "k1" -> <<1, 0>>
    [] k = "k2" -> <<3, 0>>
    [] k = "k3" -> <<1, 1>>
    [] OTHER    -> <<0, 0>>

\* the record that set builds for one key/value pair
CacheRecord(k, v) == [id |-> k, text |-> k, value |-> v, vector |-> Embedding(k)]

\* the values the callers store under a key: k1 is stored under two values,
\* the other keys under one
ValuesOf(k) == IF k = "k1" THEN Values ELSE {"v1"}

\* the values a stored record of key k can carry: a bulk set with fewer
\* values than keys builds records whose value is undefined
RecordValues(k) == ValuesOf(k) \cup (IF k = "k3" THEN {Absent} ELSE {})

\* a key that holds a quote: the text k2' OR id = 'k1
InjectionKey == "k2' OR id = 'k1"

\* the record that set builds for the key that holds a quote
QuotedRecord == CacheRecord(InjectionKey, "v1")

\* a record of the key k1 written while the provider was configured with a
\* model of three dimensions instead of two
ForeignRecord == [id |-> "k1", text |-> "k1", value |-> "v1", vector |-> <<1, 0, 0>>]

Records == UNION {{CacheRecord(k, v) : v \in RecordValues(k)} : k \in Keys} \cup {ForeignRecord, QuotedRecord}

----------------------------------------------------------------------------
\* Arithmetic helpers.

RECURSIVE SumSeq(_)
SumSeq(s) == IF s = <<>> THEN 0 ELSE Head(s) + SumSeq(Tail(s))

RECURSIVE SumOver(_, _)
SumOver(S, f) ==
  IF S = {} THEN 0
  ELSE LET x == CHOOSE y \in S : TRUE IN f[x] + SumOver(S \ {x}, f)

Sign(n) == IF n > 0 THEN 1 ELSE IF n < 0 THEN -1 ELSE 0

Square(n) == n * n

IsPerfectSquare(n) == \E r \in 0..n : r * r = n

----------------------------------------------------------------------------
\* The similarity scorer.

\* The loop of cosineSimilarity: the dot product and the two squared norms.
\* The quotient dot / (sqrt(normA) * sqrt(normB)) is kept unevaluated; NaN
\* is the result of 0 / 0 when either norm is 0.
cosineSimilarity(a, b) ==
  LET dot == SumSeq([i \in 1..Len(a) |-> a[i] * b[i]])
      na  == SumSeq([i \in 1..Len(a) |-> a[i] * a[i]])
      nb  == SumSeq([i \in 1..Len(b) |-> b[i] * b[i]])
  IN  [nan |-> (na = 0 \/ nb = 0), dot |-> dot, normA |-> na, normB |-> nb]

\* a scorer without the check of the lengths
DimensionUnchecked(a, b) == FALSE

\* cosineSimilarity throws when the lengths differ
DimensionMismatch(a, b) == Len(a) # Len(b)

\* The sign of (double result - exact quotient) when the exact quotient is
\* rational.  Math.sqrt of a perfect square is exact, and so are the product
\* and the correctly rounded quotient; for the squared norm 2 of <<1, 1>>
\* the double Math.sqrt(2) * Math.sqrt(2) is 2.0000000000000004, so
\* the quotient 2 / 2.0000000000000004 is a double below the exact value 1.
IEEEDeviation(s) ==
  IF IsPerfectSquare(s.normA) /\ IsPerfectSquare(s.normB) THEN 0
  ELSE IF s.normA = 2 /\ s.normB = 2 THEN -1
  ELSE 0

\* Order of two numbers x, y (not NaN) as doubles: -1, 0 or 1 for x < y,
\* x = y, x > y.  The exact quotients are compared through their signed
\* squares; equal exact quotients are ordered by their rounding.
SimCompare(x, y) ==
  LET lx == Sign(x.dot) * Square(x.dot) * y.normA * y.normB
      ly == Sign(y.dot) * Square(y.dot) * x.normA * x.normB
  IN  IF lx # ly THEN Sign(lx - ly)
      ELSE Sign(IEEEDeviation(x) - IEEEDeviation(y))

\* a number p/q as a similarity value (q > 0): the quotient p / (sqrt(q*q) * sqrt(1))
Threshold(mp) == [nan |-> FALSE, dot |-> mp[1], normA |-> Square(mp[2]), normB |-> 1]

\* JavaScript x >= y on numbers: false when either is NaN
NumGE(x, y) == ~x.nan /\ ~y.nan /\ SimCompare(x, y) >= 0

\* the gate of queryKey: similarity >= this.minProximity
PassesGate(sim, mp) == NumGE(sim, Threshold(mp))

----------------------------------------------------------------------------
\* The constructor.

\* a number p/q is written <<p, q>>
DefaultMinProximity == <<9, 10>>

DefaultTableName == <<"t">>

\* ResolveTableName that leaves the namespace out of the table name
ResolveTableNameShared(tableName, namespace) == tableName

\* this.tableName = namespace ? `${tableName}_${namespace}` : tableName
\* (the empty namespace is falsy, like an absent one)
ResolveTableName(tableName, namespace) ==
  IF namespace # <<>> THEN tableName \o <<"_">> \o namespace ELSE tableName

\* process.env, as far as the constructor reads it.  An unset string
\* (a variable of the environment, a field of the config) is "": the
\* constructor reads strings through ||, which takes the empty string
\* and undefined alike
NoKey == ""

Unset == ""

NoEnv ==
  [VOYAGE_API_KEY |-> NoKey, CACHE_MIN_PROXIMITY |-> Unset, VOYAGE_MODEL |-> Unset,
   LANCEDB_URI |-> Unset, CACHE_TABLE_NAME |-> <<>>, CACHE_NAMESPACE |-> <<>>,
   AWS_ACCESS_KEY_ID |-> Unset, AWS_SECRET_ACCESS_KEY |-> Unset,
   AWS_SESSION_TOKEN |-> Unset, AWS_REGION |-> Unset, S3_ENDPOINT |-> Unset,
   ALLOW_HTTP |-> Unset]

Env(voyageApiKey) == [NoEnv EXCEPT !.VOYAGE_API_KEY = voyageApiKey]

\* config.voyageApiKey || process.env.VOYAGE_API_KEY: the empty string is
\* falsy, like an absent key
ResolveApiKey(config, env) ==
  IF config.voyageApiKey # NoKey THEN config.voyageApiKey ELSE env.VOYAGE_API_KEY

\* x || y on strings
OrElse(x, y) == IF x # Unset THEN x ELSE y

\* a minProximity that is not given, and NaN, among the numbers <<p, q>>
NoNumber == <<>>

NaN == <<0, 0>>

\* Number(s) for the text s of a variable: Number(undefined) is NaN,
\* Number("0") is 0
Number(s) ==
  CASE s = Unset  -> NaN
    [] s = "0"    -> <<0, 1>>
    [] s = "0.5"  -> <<1, 2>>
    [] s = "0.95" -> <<19, 20>>
    [] s = "1"    -> <<1, 1>>
    [] OTHER      -> NaN

\* config.minProximity ?? (Number(process.env.CACHE_MIN_PROXIMITY) || 0.9):
\* ?? keeps every given number, || drops NaN and 0
ResolveMinProximity(config, env) ==
  IF config.minProximity # NoNumber THEN config.minProximity
  ELSE IF Number(env.CACHE_MIN_PROXIMITY)[1] # 0 THEN Number(env.CACHE_MIN_PROXIMITY)
       ELSE DefaultMinProximity

DefaultVoyageModel == "voyage-3.5-lite"

DefaultDbUri == "./lancedb"

\* config.namespace || process.env.CACHE_NAMESPACE
ResolveNamespace(config, env) ==
  IF config.namespace # <<>> THEN config.namespace ELSE env.CACHE_NAMESPACE

\* config.tableName || process.env.CACHE_TABLE_NAME || 'semantic_cache'
ResolveBaseTableName(config, env) ==
  IF config.tableName # <<>> THEN config.tableName
  ELSE IF env.CACHE_TABLE_NAME # <<>> THEN env.CACHE_TABLE_NAME
       ELSE DefaultTableName

\* the storage options of a config that gives none; allowHttp is a
\* boolean or undefined, written "true", "false" and Absent
NoStorageOptions ==
  [awsAccessKeyId |-> Unset, awsSecretAccessKey |-> Unset, awsSessionToken |-> Unset,
   region |-> Unset, endpoint |-> Unset, allowHttp |-> Absent, timeout |-> Unset,
   connectTimeout |-> Unset]

\* buildStorageOptions before the undefined entries are removed
StorageOptionsOf(configOptions, env) ==
  [awsAccessKeyId     |-> OrElse(configOptions.awsAccessKeyId, env.AWS_ACCESS_KEY_ID),
   awsSecretAccessKey |-> OrElse(configOptions.awsSecretAccessKey, env.AWS_SECRET_ACCESS_KEY),
   awsSessionToken    |-> OrElse(configOptions.awsSessionToken, env.AWS_SESSION_TOKEN),
   region             |-> OrElse(configOptions.region, env.AWS_REGION),
   endpoint           |-> OrElse(configOptions.endpoint, env.S3_ENDPOINT),
   allowHttp          |-> IF configOptions.allowHttp # Absent THEN configOptions.allowHttp
                          ELSE IF env.ALLOW_HTTP = "true" THEN "true" ELSE "false",
   timeout            |-> configOptions.timeout,
   connectTimeout     |-> configOptions.connectTimeout]

\* buildStorageOptions: the entries that are not undefined, as a function
\* on their names; undefined (here the function on no name) when none is left
BuildStorageOptions(configOptions, env) ==
  LET options == StorageOptionsOf(configOptions, env)
      set     == {n \in DOMAIN options : options[n] # Unset}
  IN  [n \in set |-> options[n]]

\* the options initializeConnection hands to the store: the truthy entries
\* of this.storageOptions, and allowHttp as a string when it is defined
LancedbOptions(storageOptions) ==
  [n \in {m \in DOMAIN storageOptions : m = "allowHttp" \/ storageOptions[m] # Unset} |->
     storageOptions[n]]

\* the arguments of connect() in initializeConnection: the URI alone when
\* this.storageOptions is undefined, the URI and the options otherwise
ConnectArguments(c) ==
  IF DOMAIN c.storageOptions = {}
    THEN <<c.dbUri>>
    ELSE <<c.dbUri, [storageOptions |-> LancedbOptions(c.storageOptions)]>>

\* Constructor that does not look at the API key
ConstructorLazyKey(config, env) ==
  [constructed    |-> TRUE,
   apiKey         |-> ResolveApiKey(config, env),
   tableName      |-> ResolveTableName(ResolveBaseTableName(config, env), ResolveNamespace(config, env)),
   namespace      |-> ResolveNamespace(config, env),
   minProximity   |-> ResolveMinProximity(config, env),
   voyageModel    |-> OrElse(OrElse(config.voyageModel, env.VOYAGE_MODEL), DefaultVoyageModel),
   dbUri          |-> OrElse(OrElse(config.dbUri, env.LANCEDB_URI), DefaultDbUri),
   storageOptions |-> BuildStorageOptions(config.storageOptions, env)]

\* the fields of the instance that the constructor resolves from its config
\* and the environment; constructed is FALSE when the constructor threw,
\* and then there is no instance to call
Constructor(config, env) ==
  [constructed    |-> ResolveApiKey(config, env) # NoKey,
   apiKey         |-> ResolveApiKey(config, env),
   tableName      |-> ResolveTableName(ResolveBaseTableName(config, env), ResolveNamespace(config, env)),
   namespace      |-> ResolveNamespace(config, env),
   minProximity   |-> ResolveMinProximity(config, env),
   voyageModel    |-> OrElse(OrElse(config.voyageModel, env.VOYAGE_MODEL), DefaultVoyageModel),
   dbUri          |-> OrElse(OrElse(config.dbUri, env.LANCEDB_URI), DefaultDbUri),
   storageOptions |-> BuildStorageOptions(config.storageOptions, env)]

MinProximities == {DefaultMinProximity, <<1, 1>>}

\* a config that gives the API key and nothing else
BaseConfig ==
  [voyageApiKey |-> "key", tableName |-> <<>>, namespace |-> <<>>, minProximity |-> NoNumber,
   voyageModel |-> Unset, dbUri |-> Unset, storageOptions |-> NoStorageOptions]

MkConfig(t, n, mp) ==
  [BaseConfig EXCEPT !.tableName = t, !.namespace = n, !.minProximity = mp]

\* no constructor call recorded
NoArgs == [called |-> FALSE, config |-> BaseConfig, env |-> NoEnv]

\* one cache instance on the default table, with each threshold
SingleConfigs ==
  {[i \in Insts |-> Constructor(MkConfig(DefaultTableName, <<>>, mp), Env(NoKey))] : mp \in MinProximities}

\* two instances on one store URI and one base table name: the first in
\* namespace "a", the second in namespace "b" or without a namespace
NamespaceConfigs ==
  {[i \in Insts |->
      IF i = 1 THEN Constructor(MkConfig(DefaultTableName, <<"a">>, DefaultMinProximity), Env(NoKey))
      ELSE Constructor(MkConfig(DefaultTableName, n2, DefaultMinProximity), Env(NoKey))]
   : n2 \in {<<>>, <<"b">>}}

TableNames ==
  {c[i].tableName : c \in SingleConfigs \cup NamespaceConfigs, i \in Insts}

----------------------------------------------------------------------------
\* The provider factory.

SupportedProviders == {"openai", "gemini", "voyage"}

DefaultProvider == "voyage"

\* String.prototype.toLowerCase on the tags of the model
ToLowerCase(s) ==
  CASE s = "OpenAI" -> "openai"
    [] s = "GEMINI" -> "gemini"
    [] s = "Voyage" -> "voyage"
    [] s = "Cohere" -> "cohere"
    [] OTHER        -> s

\* getName() of the provider classes
OpenAIName == "openai"

GeminiName == "gemini"

VoyageName == "voyage"

NoProviderConfig ==
  [provider |-> Unset, openaiApiKey |-> NoKey, geminiApiKey |-> NoKey, voyageApiKey |-> NoKey]

NoProviderEnv ==
  [EMBED_PROVIDER |-> Unset, OPENAI_API_KEY |-> NoKey, GEMINI_API_KEY |-> NoKey,
   VOYAGE_API_KEY |-> NoKey]

\* the outcome of a call: a provider of a name, or an error
Provider(name) == [raised |-> FALSE, error |-> "", name |-> name]

ProviderError(error) == [raised |-> TRUE, error |-> error, name |-> ""]

\* create<X>Provider: the key from the config or the environment, an
\* error without one
CreateNamedProvider(apiKey, name) ==
  IF apiKey = NoKey THEN ProviderError("API key is required") ELSE Provider(name)

\* createProvider that takes the tag as written and falls back to the
\* default provider on a tag it does not know
CreateProviderLenient(config, env) ==
  LET p == OrElse(OrElse(config.provider, env.EMBED_PROVIDER), DefaultProvider)
  IN  CASE p = "openai" ->
             CreateNamedProvider(OrElse(config.openaiApiKey, env.OPENAI_API_KEY), OpenAIName)
        [] p = "gemini" ->
             CreateNamedProvider(OrElse(config.geminiApiKey, env.GEMINI_API_KEY), GeminiName)
        [] OTHER ->
             CreateNamedProvider(OrElse(config.voyageApiKey, env.VOYAGE_API_KEY), VoyageName)

\* EmbeddingProviderFactory.createProvider(config)
CreateProvider(config, env) ==
  LET p == ToLowerCase(OrElse(OrElse(config.provider, env.EMBED_PROVIDER), DefaultProvider))
  IN  CASE p = "openai" ->
             CreateNamedProvider(OrElse(config.openaiApiKey, env.OPENAI_API_KEY), OpenAIName)
        [] p = "gemini" ->
             CreateNamedProvider(OrElse(config.geminiApiKey, env.GEMINI_API_KEY), GeminiName)
        [] p = "voyage" ->
             CreateNamedProvider(OrElse(config.voyageApiKey, env.VOYAGE_API_KEY), VoyageName)
        [] OTHER -> ProviderError("Unsupported embedding provider")

\* An optional value of a JSON response: a field that is missing (read as
\* undefined) or given.  An array, the empty one included, is truthy.
Missing == [defined |-> FALSE]

Given(v) == [defined |-> TRUE, value |-> v]

\* the outcome of embed: a vector, or an error
Embedded(vector) == [raised |-> FALSE, error |-> "", vector |-> vector]

EmbedError(error) == [raised |-> TRUE, error |-> error, vector |-> <<>>]

\* the test data && data.length > 0 && data[0]?.embedding on the list of
\* a response of OpenAI or VoyageAI
HasFirstEmbedding(data) ==
  data.defined /\ Len(data.value) > 0 /\ data.value[1].embedding.defined

\* OpenAIEmbeddingProvider.embed on the response of the embeddings endpoint
OpenAIEmbed(response) ==
  IF ~response.ok
    THEN EmbedError("Failed to get OpenAI embedding: OpenAI API error")
  ELSE IF HasFirstEmbedding(response.data)
    THEN Embedded(response.data.value[1].embedding.value)
    ELSE EmbedError("Failed to get OpenAI embedding: No embedding returned from OpenAI")

\* GeminiEmbeddingProvider.embed on the response of embedContent
GeminiEmbed(response) ==
  IF ~response.ok
    THEN EmbedError("Failed to get Gemini embedding: Gemini API error")
  ELSE IF response.embedding.defined /\ response.embedding.value.values.defined
    THEN Embedded(response.embedding.value.values.value)
    ELSE EmbedError("Failed to get Gemini embedding: No embedding returned from Gemini")

\* VoyageEmbeddingProvider.embed on what the client answers; ok is FALSE
\* when the client throws
VoyageEmbed(response) ==
  IF ~response.ok
    THEN EmbedError("Failed to get VoyageAI embedding: client error")
  ELSE IF HasFirstEmbedding(response.data)
    THEN Embedded(response.data.value[1].embedding.value)
    ELSE EmbedError("Failed to get VoyageAI embedding: No embedding returned from VoyageAI")

\* SemanticCache.getEmbedding on what the client answers
GetEmbedding(response) ==
  IF ~response.ok
    THEN EmbedError("Failed to get embedding: client error")
  ELSE IF HasFirstEmbedding(response.data)
    THEN Embedded(response.data.value[1].embedding.value)
    ELSE EmbedError("Failed to get embedding: No embedding returned from VoyageAI")

\* the class SemanticCache embeds through its own client
CacheName == "SemanticCache"

Embed(name, response) ==
  CASE name = OpenAIName -> OpenAIEmbed(response)
    [] name = GeminiName -> GeminiEmbed(response)
    [] name = VoyageName -> VoyageEmbed(response)
    [] name = CacheName  -> GetEmbedding(response)

\* no call of the provider factory recorded
NoProviderCall ==
  [called |-> FALSE, config |-> NoProviderConfig, env |-> NoProviderEnv,
   outcome |-> ProviderError("")]

----------------------------------------------------------------------------
\* The vector store: tables of rows, a row being a record with a count.

NoRows == [r \in Records |-> 0]

NoTable == [exists |-> FALSE, rows |-> NoRows]

RowCount(rows) == SumOver(Records, rows)

\* Table.add(records): appends every record
RECURSIVE AddRows(_, _)
AddRows(rows, recs) ==
  IF recs = <<>> THEN rows
  ELSE AddRows([rows EXCEPT ![Head(recs)] = @ + 1], Tail(recs))

\* the text of a key as the store's SQL lexer cuts it once it stands in a
\* filter: a key without quotes is one piece of text
KeyText(key) ==
  IF key = InjectionKey THEN <<"k2", "'", "OR", "id", "=", "'", "k1">> ELSE <<key>>

\* the filter `id = '${key}'` of delete and bulkDelete: the key is put
\* between the quotes as it is
FilterText(key) == <<"id", "=", "'">> \o KeyText(key) \o <<"'">>

\* the operands of the ORs of a filter
RECURSIVE Disjuncts(_)
Disjuncts(t) ==
  IF \E j \in 1..Len(t) : t[j] = "OR"
    THEN LET j == CHOOSE m \in 1..Len(t) : t[m] = "OR" /\ \A l \in 1..(m - 1) : t[l] # "OR"
         IN  <<SubSeq(t, 1, j - 1)>> \o Disjuncts(SubSeq(t, j + 1, Len(t)))
    ELSE <<t>>

\* t reads id = 'text'
Comparison(t) ==
  /\ Len(t) = 5
  /\ <<t[1], t[2], t[3], t[5]>> = <<"id", "=", "'", "'">>
  /\ t[4] \notin {"id", "=", "'", "OR"}

\* the store parses the filter of the key; it throws on one it cannot parse
FilterValid(key) ==
  \A j \in 1..Len(Disjuncts(FilterText(key))) : Comparison(Disjuncts(FilterText(key))[j])

\* the filter `id = '${key}'` evaluated by the store on the row r
DeleteFilter(key, r) ==
  \E j \in 1..Len(Disjuncts(FilterText(key))) : Disjuncts(FilterText(key))[j][4] = r.id

\* Table.delete(filter): removes every row the filter selects
DeleteRows(rows, key) ==
  [r \in Records |-> IF DeleteFilter(key, r) THEN 0 ELSE rows[r]]

\* squared L2 distance, the store's default metric for vectorSearch
L2Distance(a, b) == SumSeq([i \in 1..Len(a) |-> Square(a[i] - b[i])])

\* Table.vectorSearch(q).limit(k).toArray(): the k nearest rows, nearest
\* first; rows at equal distance come in an order the store chooses.
RECURSIVE VectorSearch(_, _, _)
VectorSearch(rows, q, k) ==
  LET present == {r \in Records : rows[r] > 0}
      nearest == {r \in present :
                    \A o \in present : L2Distance(q, r.vector) <= L2Distance(q, o.vector)}
  IN  IF k <= 0 \/ present = {} THEN {<<>>}
      ELSE UNION {{<<r>> \o rest :
                     rest \in VectorSearch([rows EXCEPT ![r] = @ - 1], q, k - 1)}
                  : r \in nearest}

----------------------------------------------------------------------------
\* External calls that can fail for an operational reason: at most one
\* call kind fails in one operation; `at` is the key index it fails at in
\* a bulk operation.

CallKinds ==
  {"connect", "openTable", "embed", "vectorSearch", "createTable", "add", "delete", "dropTable"}

NoFailure == [call |-> "none", at |-> 0]

Failure(call, at) == [call |-> call, at |-> at]

\* the failures of an operation that issues the calls of `kinds` once per
\* key, for n keys, besides connect and openTable
Failures(kinds, n) ==
  {NoFailure, Failure("connect", 1), Failure("openTable", 1)}
    \cup {Failure(c, at) : c \in kinds, at \in 1..n}

Fails(f, call) == f.call = call

----------------------------------------------------------------------------
\* Lazy handles.

\* initializeConnection: connect() unless this.connection is set
InitializeConnection(i, f) ==
  IF connection[i]
    THEN [conn |-> TRUE, threw |-> FALSE, calls |-> <<>>]
    ELSE [conn |-> ~Fails(f, "connect"), threw |-> Fails(f, "connect"),
          calls |-> <<"connect">>]

\* OpenTable that never opens a table
OpenTableNever(i, conn, tbl, st, f) == [tbl |-> tbl, calls |-> <<>>]

\* initializeTable on handles (conn, tbl): openTable() unless this.table is
\* set; every error of openTable is taken to mean that the table is absent
OpenTable(i, conn, tbl, st, f) ==
  IF tbl
    THEN [tbl |-> TRUE, calls |-> <<>>]
    ELSE [tbl |-> st[cfg[i].tableName].exists /\ ~Fails(f, "openTable"),
          calls |-> <<"openTable">>]

\* InitializeTable that opens the table whether or not a handle is held
InitializeTableReopens(i, f) ==
  LET ic == InitializeConnection(i, f)
      ot == OpenTable(i, ic.conn, FALSE, store, f)
  IN  IF ic.threw
        THEN [conn |-> FALSE, tbl |-> table[i], threw |-> TRUE, calls |-> ic.calls]
        ELSE [conn |-> TRUE, tbl |-> ot.tbl, threw |-> FALSE, calls |-> ic.calls \o ot.calls]

\* initializeTable: initializeConnection, then openTable unless a handle
\* is held
InitializeTable(i, f) ==
  LET ic == InitializeConnection(i, f)
      ot == OpenTable(i, ic.conn, table[i], store, f)
  IN  IF ic.threw
        THEN [conn |-> FALSE, tbl |-> table[i], threw |-> TRUE, calls |-> ic.calls]
        ELSE [conn |-> TRUE, tbl |-> ot.tbl, threw |-> FALSE, calls |-> ic.calls \o ot.calls]

----------------------------------------------------------------------------
\* The record of the last public operation.

\* res: the values or search results returned; count: the number returned;
\* raised: an exception reached the caller; logged: an error was caught and
\* logged with console.error; cand: the rows the store returned to a
\* lookup; calls: the external calls issued, in order
MkLast(op, i, keys, vals, limit, res, count, raised, logged, cand, calls) ==
  [op |-> op, inst |-> i, keys |-> keys, vals |-> vals, limit |-> limit,
   res |-> res, count |-> count, raised |-> raised, logged |-> logged,
   cand |-> cand, calls |-> calls]

NoWrite == [inst |-> 0, keys |-> <<>>, vals |-> <<>>]

SetHandles(i, conn, tbl) ==
  /\ connection' = [connection EXCEPT ![i] = conn]
  /\ table' = [table EXCEPT ![i] = tbl]

----------------------------------------------------------------------------
\* get

\* GateResult without the comparison with minProximity
GateResultUngated(i, k, cand) ==
  IF Len(cand) > 0 THEN cand[1].value ELSE Absent

\* the threshold gate of queryKey on the candidates the store returned
GateResult(i, k, cand) ==
  IF Len(cand) > 0
    THEN IF DimensionMismatch(Embedding(k), cand[1].vector) THEN Absent
         ELSE IF PassesGate(cosineSimilarity(Embedding(k), cand[1].vector), cfg[i].minProximity)
           THEN cand[1].value
           ELSE Absent
    ELSE Absent

\* QueryKey that asks for the embedding once more when the request failed
QueryKeyRetries(i, k, tbl, st, f) ==
  LET t == st[cfg[i].tableName]
  IN  IF ~tbl
        THEN {[res |-> Absent, logged |-> FALSE, cand |-> <<>>, calls |-> <<>>]}
      ELSE IF Fails(f, "embed")
        THEN {[res |-> Absent, logged |-> TRUE, cand |-> <<>>, calls |-> <<"embed", "embed">>]}
      ELSE IF Fails(f, "vectorSearch") \/ ~t.exists
        THEN {[res |-> Absent, logged |-> TRUE, cand |-> <<>>,
               calls |-> <<"embed", "vectorSearch">>]}
      ELSE {[res |-> GateResult(i, k, c),
              logged |-> (Len(c) > 0 /\ DimensionMismatch(Embedding(k), c[1].vector)),
              cand |-> c, calls |-> <<"embed", "vectorSearch">>]
             : c \in VectorSearch(t.rows, Embedding(k), 1)}

\* queryKey after initializeTable left the table handle tbl: the possible
\* outcomes, one per order in which the store may return equidistant rows
QueryKey(i, k, tbl, st, f) ==
  LET t == st[cfg[i].tableName]
  IN  IF ~tbl
        THEN {[res |-> Absent, logged |-> FALSE, cand |-> <<>>, calls |-> <<>>]}
      ELSE IF Fails(f, "embed")
        THEN {[res |-> Absent, logged |-> TRUE, cand |-> <<>>, calls |-> <<"embed">>]}
      ELSE IF Fails(f, "vectorSearch") \/ ~t.exists
        THEN {[res |-> Absent, logged |-> TRUE, cand |-> <<>>,
               calls |-> <<"embed", "vectorSearch">>]}
      ELSE {[res |-> GateResult(i, k, c),
              logged |-> (Len(c) > 0 /\ DimensionMismatch(Embedding(k), c[1].vector)),
              cand |-> c, calls |-> <<"embed", "vectorSearch">>]
             : c \in VectorSearch(t.rows, Embedding(k), 1)}

\* Get that creates the table it does not find
GetCreatesTable(i, k, f) ==
  LET it == InitializeTable(i, f)
  IN  /\ SetHandles(i, it.conn, it.tbl)
      /\ IF it.threw
           THEN last' = MkLast("get", i, <<k>>, <<>>, 0, <<>>, 0, TRUE, FALSE, <<>>, it.calls)
           ELSE \E o \in QueryKey(i, k, it.tbl, store, f) :
                  last' = MkLast("get", i, <<k>>, <<>>, 0, <<o.res>>, 0, FALSE, o.logged, o.cand,
                                 it.calls \o o.calls)
      /\ store' = [store EXCEPT ![cfg[i].tableName].exists = TRUE]
      /\ UNCHANGED <<cfg, lastWrite, bulk>>

\* get(key): initializeTable is awaited outside the try block of queryKey
Get(i, k, f) ==
  LET it == InitializeTable(i, f)
  IN  /\ SetHandles(i, it.conn, it.tbl)
      /\ IF it.threw
           THEN last' = MkLast("get", i, <<k>>, <<>>, 0, <<>>, 0, TRUE, FALSE, <<>>, it.calls)
           ELSE \E o \in QueryKey(i, k, it.tbl, store, f) :
                  last' = MkLast("get", i, <<k>>, <<>>, 0, <<o.res>>, 0, FALSE, o.logged, o.cand,
                                 it.calls \o o.calls)
      /\ UNCHANGED <<cfg, store, lastWrite, bulk>>

----------------------------------------------------------------------------
\* search

SearchResult(k, r) ==
  [id |-> r.id, text |-> r.text, value |-> r.value,
   similarity |-> cosineSimilarity(Embedding(k), r.vector)]

\* SearchResults that drops the records below minProximity
RECURSIVE SearchResultsGated(_, _, _)
SearchResultsGated(i, k, c) ==
  IF c = <<>> THEN <<>>
  ELSE IF PassesGate(cosineSimilarity(Embedding(k), Head(c).vector), cfg[i].minProximity)
    THEN <<SearchResult(k, Head(c))>> \o SearchResultsGated(i, k, Tail(c))
    ELSE SearchResultsGated(i, k, Tail(c))

\* allRecords.map(...): every record the store returned, with its similarity
SearchResults(i, k, c) == [j \in 1..Len(c) |-> SearchResult(k, c[j])]

\* the comparator (a, b) => b.similarity - a.similarity: negative when a
\* sorts first; a NaN difference is taken as 0 by Array.prototype.sort
Comparator(a, b) ==
  IF a.similarity.nan \/ b.similarity.nan THEN 0
  ELSE SimCompare(b.similarity, a.similarity)

\* insertion of x behind every element it does not sort strictly before
RECURSIVE InsertSorted(_, _)
InsertSorted(s, x) ==
  IF s = <<>> THEN <<x>>
  ELSE IF Comparator(x, Head(s)) < 0 THEN <<x>> \o s
  ELSE <<Head(s)>> \o InsertSorted(Tail(s), x)

\* a stable sort
RECURSIVE StableSort(_)
StableSort(s) ==
  IF s = <<>> THEN <<>>
  ELSE InsertSorted(StableSort(SubSeq(s, 1, Len(s) - 1)), s[Len(s)])

Orderings(s) ==
  {[j \in 1..Len(s) |-> s[p[j]]] :
     p \in {q \in [1..Len(s) -> 1..Len(s)] : \A a, b \in 1..Len(s) : a # b => q[a] # q[b]}}

\* the comparator is an inconsistent one when a NaN sits between numbers
\* that differ: it calls both equal to the NaN and not equal to each other
ConsistentComparator(s) ==
  \A a, b, c \in 1..Len(s) :
    (Comparator(s[a], s[b]) = 0 /\ Comparator(s[b], s[c]) = 0) => Comparator(s[a], s[c]) = 0

\* Sort that leaves the results in the order of the store
SortOmitted(s) == {s}

\* results.sort(...): stable for a consistent comparator, and an
\* implementation-defined order otherwise
Sort(s) == IF ConsistentComparator(s) THEN {StableSort(s)} ELSE Orderings(s)

\* SearchKey that requests the embedding before it looks at the table
\* handle
SearchKeyEmbedsFirst(i, k, limit, tbl, st, f) ==
  LET t == st[cfg[i].tableName]
  IN  IF ~tbl
        THEN {[res |-> <<>>, logged |-> FALSE, cand |-> <<>>, calls |-> <<"embed">>]}
      ELSE IF Fails(f, "embed")
        THEN {[res |-> <<>>, logged |-> TRUE, cand |-> <<>>, calls |-> <<"embed">>]}
      ELSE IF Fails(f, "vectorSearch") \/ ~t.exists
        THEN {[res |-> <<>>, logged |-> TRUE, cand |-> <<>>,
               calls |-> <<"embed", "vectorSearch">>]}
      ELSE UNION
             {IF \E j \in 1..Len(c) : DimensionMismatch(Embedding(k), c[j].vector)
                THEN {[res |-> <<>>, logged |-> TRUE, cand |-> c,
                       calls |-> <<"embed", "vectorSearch">>]}
                ELSE {[res |-> sorted, logged |-> FALSE, cand |-> c,
                       calls |-> <<"embed", "vectorSearch">>]
                      : sorted \in Sort(SearchResults(i, k, c))}
              : c \in VectorSearch(t.rows, Embedding(k), limit)}

\* search after initializeTable, on the table handle tbl: the possible
\* outcomes
SearchKey(i, k, limit, tbl, st, f) ==
  LET t == st[cfg[i].tableName]
  IN  IF ~tbl
        THEN {[res |-> <<>>, logged |-> FALSE, cand |-> <<>>, calls |-> <<>>]}
      ELSE IF Fails(f, "embed")
        THEN {[res |-> <<>>, logged |-> TRUE, cand |-> <<>>, calls |-> <<"embed">>]}
      ELSE IF Fails(f, "vectorSearch") \/ ~t.exists
        THEN {[res |-> <<>>, logged |-> TRUE, cand |-> <<>>,
               calls |-> <<"embed", "vectorSearch">>]}
      ELSE UNION
             {IF \E j \in 1..Len(c) : DimensionMismatch(Embedding(k), c[j].vector)
                THEN {[res |-> <<>>, logged |-> TRUE, cand |-> c,
                       calls |-> <<"embed", "vectorSearch">>]}
                ELSE {[res |-> sorted, logged |-> FALSE, cand |-> c,
                       calls |-> <<"embed", "vectorSearch">>]
                      : sorted \in Sort(SearchResults(i, k, c))}
              : c \in VectorSearch(t.rows, Embedding(k), limit)}

\* search(key, limit): initializeTable is awaited outside the try block
Search(i, k, limit, f) ==
  LET it == InitializeTable(i, f)
  IN  /\ SetHandles(i, it.conn, it.tbl)
      /\ IF it.threw
           THEN last' = MkLast("search", i, <<k>>, <<>>, limit, <<>>, 0, TRUE, FALSE, <<>>, it.calls)
           ELSE \E o \in SearchKey(i, k, limit, it.tbl, store, f) :
                  last' = MkLast("search", i, <<k>>, <<>>, limit, o.res, Len(o.res), FALSE,
                                 o.logged, o.cand, it.calls \o o.calls)
      /\ UNCHANGED <<cfg, store, lastWrite, bulk>>

----------------------------------------------------------------------------
\* set

\* WriteRecords that catches the failure of createTable and of add
WriteRecordsSwallowed(i, tbl, recs, f) ==
  LET name    == cfg[i].tableName
      create  == ~tbl
      cFails  == create /\ (Fails(f, "createTable") \/ store[name].exists)
      st1     == IF create /\ ~cFails
                   THEN [store EXCEPT ![name] =
                           [exists |-> TRUE, rows |-> AddRows(NoRows, <<Head(recs)>>)]]
                   ELSE store
      aFails  == Fails(f, "add") \/ ~st1[name].exists
      st2     == [st1 EXCEPT ![name].rows = AddRows(@, recs)]
      cCalls  == IF create THEN <<"createTable">> ELSE <<>>
  IN  IF cFails
        THEN [store |-> store, tbl |-> FALSE, threw |-> FALSE, calls |-> cCalls]
      ELSE IF aFails
        THEN [store |-> st1, tbl |-> TRUE, threw |-> FALSE, calls |-> cCalls \o <<"add">>]
      ELSE [store |-> st2, tbl |-> TRUE, threw |-> FALSE, calls |-> cCalls \o <<"add">>]

\* ensureTableExists(records[0]) followed by this.table.add(records), on
\* the table handle tbl: createTable seeds the table with the first record,
\* and fails when the table already exists
WriteRecords(i, tbl, recs, f) ==
  LET name    == cfg[i].tableName
      create  == ~tbl
      cFails  == create /\ (Fails(f, "createTable") \/ store[name].exists)
      st1     == IF create /\ ~cFails
                   THEN [store EXCEPT ![name] =
                           [exists |-> TRUE, rows |-> AddRows(NoRows, <<Head(recs)>>)]]
                   ELSE store
      aFails  == Fails(f, "add") \/ ~st1[name].exists
      st2     == [st1 EXCEPT ![name].rows = AddRows(@, recs)]
      cCalls  == IF create THEN <<"createTable">> ELSE <<>>
  IN  IF cFails
        THEN [store |-> store, tbl |-> FALSE, threw |-> TRUE, calls |-> cCalls]
      ELSE IF aFails
        THEN [store |-> st1, tbl |-> TRUE, threw |-> TRUE, calls |-> cCalls \o <<"add">>]
      ELSE [store |-> st2, tbl |-> TRUE, threw |-> FALSE, calls |-> cCalls \o <<"add">>]

\* the ghost record of the last write after a set that wrote st
WriteGhost(i, keys, vals, threw, st) ==
  IF ~threw THEN [inst |-> i, keys |-> keys, vals |-> vals]
  ELSE IF st # store THEN NoWrite
  ELSE lastWrite

\* set(key, value)
Set(i, k, v, f) ==
  LET it == InitializeTable(i, f)
      w  == WriteRecords(i, it.tbl, <<CacheRecord(k, v)>>, f)
  IN  IF it.threw
        THEN /\ SetHandles(i, it.conn, it.tbl)
             /\ last' = MkLast("set", i, <<k>>, <<v>>, 0, <<>>, 0, TRUE, FALSE, <<>>, it.calls)
             /\ UNCHANGED <<cfg, store, lastWrite, bulk>>
      ELSE IF Fails(f, "embed")
        THEN /\ SetHandles(i, it.conn, it.tbl)
             /\ last' = MkLast("set", i, <<k>>, <<v>>, 0, <<>>, 0, TRUE, FALSE, <<>>,
                               it.calls \o <<"embed">>)
             /\ UNCHANGED <<cfg, store, lastWrite, bulk>>
      ELSE /\ RowCount(w.store[cfg[i].tableName].rows) <= MaxRows
           /\ SetHandles(i, it.conn, w.tbl)
           /\ store' = w.store
           /\ last' = MkLast("set", i, <<k>>, <<v>>, 0, <<>>, 0, w.threw, FALSE, <<>>,
                             it.calls \o <<"embed">> \o w.calls)
           /\ lastWrite' = WriteGhost(i, <<k>>, <<v>>, w.threw, w.store)
           /\ UNCHANGED <<cfg, bulk>>

\* EmbedCount of a loop that runs its body once before testing the length
EmbedCountAtLeastOne(keys, f) ==
  IF keys = <<>> THEN 1
  ELSE IF Fails(f, "embed") /\ f.at <= Len(keys) THEN f.at ELSE Len(keys)

\* the number of embedding requests of the loop over keys: one per key, up
\* to the failing one
EmbedCount(keys, f) ==
  IF Fails(f, "embed") /\ f.at <= Len(keys) THEN f.at ELSE Len(keys)

\* SetBulk that writes each record as soon as its key is embedded, so that
\* the records before a failing key are stored
SetBulkIncremental(i, keys, vals, f) ==
  LET it     == InitializeTable(i, f)
      recs   == [j \in 1..Len(keys) |->
                   CacheRecord(keys[j], IF j <= Len(vals) THEN vals[j] ELSE Absent)]
      eFails == Fails(f, "embed") /\ f.at <= Len(keys)
      embeds == [j \in 1..EmbedCount(keys, f) |-> "embed"]
      done   == IF eFails THEN SubSeq(recs, 1, f.at - 1) ELSE recs
      w      == WriteRecords(i, it.tbl, done, f)
  IN  IF it.threw
        THEN /\ SetHandles(i, it.conn, it.tbl)
             /\ last' = MkLast("setBulk", i, keys, vals, 0, <<>>, 0, TRUE, FALSE, <<>>, it.calls)
             /\ UNCHANGED <<cfg, store, lastWrite, bulk>>
      ELSE IF done = <<>>
        THEN /\ SetHandles(i, it.conn, it.tbl)
             /\ last' = MkLast("setBulk", i, keys, vals, 0, <<>>, 0, eFails, FALSE, <<>>,
                               it.calls \o embeds)
             /\ UNCHANGED <<cfg, store, lastWrite, bulk>>
      ELSE /\ RowCount(w.store[cfg[i].tableName].rows) <= MaxRows
           /\ SetHandles(i, it.conn, w.tbl)
           /\ store' = w.store
           /\ last' = MkLast("setBulk", i, keys, vals, 0, <<>>, 0, eFails \/ w.threw, FALSE, <<>>,
                             it.calls \o embeds \o w.calls)
           /\ lastWrite' = NoWrite
           /\ UNCHANGED <<cfg, bulk>>

\* set(keys, values): every key is embedded before anything is written;
\* the loop runs over keys and reads values[j], so values beyond the keys
\* are ignored and a missing value is undefined
SetBulk(i, keys, vals, f) ==
  LET it     == InitializeTable(i, f)
      recs   == [j \in 1..Len(keys) |->
                   CacheRecord(keys[j], IF j <= Len(vals) THEN vals[j] ELSE Absent)]
      eFails == Fails(f, "embed") /\ f.at <= Len(keys)
      embeds == [j \in 1..EmbedCount(keys, f) |-> "embed"]
      w      == WriteRecords(i, it.tbl, recs, f)
  IN  IF it.threw
        THEN /\ SetHandles(i, it.conn, it.tbl)
             /\ last' = MkLast("setBulk", i, keys, vals, 0, <<>>, 0, TRUE, FALSE, <<>>, it.calls)
             /\ UNCHANGED <<cfg, store, lastWrite, bulk>>
      ELSE IF eFails \/ recs = <<>>
        THEN /\ SetHandles(i, it.conn, it.tbl)
             /\ last' = MkLast("setBulk", i, keys, vals, 0, <<>>, 0, eFails, FALSE, <<>>,
                               it.calls \o embeds)
             /\ UNCHANGED <<cfg, store, lastWrite, bulk>>
      ELSE /\ RowCount(w.store[cfg[i].tableName].rows) <= MaxRows
           /\ SetHandles(i, it.conn, w.tbl)
           /\ store' = w.store
           /\ last' = MkLast("setBulk", i, keys, vals, 0, <<>>, 0, w.threw, FALSE, <<>>,
                             it.calls \o embeds \o w.calls)
           /\ lastWrite' = WriteGhost(i, keys, [j \in 1..Len(keys) |-> recs[j].value],
                                    w.threw, w.store)
           /\ UNCHANGED <<cfg, bulk>>

----------------------------------------------------------------------------
\* delete, bulkDelete

InSeq(x, s) == \E j \in 1..Len(s) : s[j] = x

\* the ghost record after the keys ks were deleted from instance i's table
DeleteGhost(i, ks) ==
  IF lastWrite.inst # 0
     /\ cfg[lastWrite.inst].tableName = cfg[i].tableName
     /\ \E j \in 1..Len(ks), m \in 1..Len(lastWrite.keys) :
          DeleteFilter(ks[j], [id |-> lastWrite.keys[m]])
    THEN NoWrite
    ELSE lastWrite

\* the loop of bulkDelete over keys on table rows: the deletes succeed up
\* to the failing one
RECURSIVE DeleteLoop(_, _, _)
DeleteLoop(rows, keys, n) ==
  IF n = 0 THEN rows ELSE DeleteRows(DeleteLoop(rows, keys, n - 1), keys[n])

\* DeleteResult that lets the failure of the delete call reach the caller
DeleteResultUncaught(ok) ==
  [count |-> 0, raised |-> ~ok, logged |-> FALSE]

\* the try block of delete: 1 when the delete call returned, and 0 with a
\* logged error when it threw
DeleteResult(ok) ==
  [count |-> IF ok THEN 1 ELSE 0, raised |-> FALSE, logged |-> ~ok]

\* delete(key): this.table!.delete(...) inside try; a null handle throws
\* there as well
Delete(i, k, f) ==
  LET it   == InitializeTable(i, f)
      name == cfg[i].tableName
      ok   == it.tbl /\ ~Fails(f, "delete") /\ store[name].exists /\ FilterValid(k)
      dc   == IF it.tbl THEN <<"delete">> ELSE <<>>
  IN  /\ SetHandles(i, it.conn, it.tbl)
      /\ IF it.threw
           THEN /\ last' = MkLast("delete", i, <<k>>, <<>>, 0, <<>>, 0, TRUE, FALSE, <<>>, it.calls)
                /\ UNCHANGED <<store, lastWrite>>
           ELSE /\ last' = MkLast("delete", i, <<k>>, <<>>, 0, <<>>, DeleteResult(ok).count,
                                  DeleteResult(ok).raised, DeleteResult(ok).logged, <<>>,
                                  it.calls \o dc)
                /\ store' = IF ok THEN [store EXCEPT ![name].rows = DeleteRows(@, k)]
                            ELSE store
                /\ lastWrite' = IF ok THEN DeleteGhost(i, <<k>>) ELSE lastWrite
      /\ UNCHANGED <<cfg, bulk>>

\* DeletesApplied for a bulkDelete that undoes its deletes when one fails
DeletesAppliedNone(keys, failAt) == IF failAt = 0 THEN Len(keys) ELSE 0

\* the number of keys whose delete stays applied when the loop of
\* bulkDelete fails at key failAt (0: no failure)
DeletesApplied(keys, failAt) == IF failAt = 0 THEN Len(keys) ELSE failAt - 1

\* bulkDelete(keys): one delete per key in order; the first failure ends
\* the loop and the result is 0
BulkDelete(i, keys, f) ==
  LET it    == InitializeTable(i, f)
      name  == cfg[i].tableName
      usable == it.tbl /\ store[name].exists
      failing == {j \in 1..Len(keys) : ~FilterValid(keys[j]) \/ (Fails(f, "delete") /\ f.at = j)}
      failAt == IF keys = <<>> THEN 0
                ELSE IF ~usable THEN 1
                ELSE IF failing # {} THEN CHOOSE j \in failing : \A m \in failing : j <= m
                ELSE 0
      done  == DeletesApplied(keys, failAt)
      issued == IF ~it.tbl THEN 0 ELSE IF failAt = 0 THEN Len(keys) ELSE failAt
  IN  /\ SetHandles(i, it.conn, it.tbl)
      /\ IF it.threw
           THEN /\ last' = MkLast("bulkDelete", i, keys, <<>>, 0, <<>>, 0, TRUE, FALSE, <<>>,
                                  it.calls)
                /\ UNCHANGED <<store, lastWrite>>
           ELSE /\ last' = MkLast("bulkDelete", i, keys, <<>>, 0, <<>>,
                                  IF failAt = 0 THEN Len(keys) ELSE 0, FALSE, failAt # 0, <<>>,
                                  it.calls \o [j \in 1..issued |-> "delete"])
                /\ store' = [store EXCEPT ![name].rows = DeleteLoop(@, keys, done)]
                /\ lastWrite' = DeleteGhost(i, SubSeq(keys, 1, done))
      /\ UNCHANGED <<cfg, bulk>>

----------------------------------------------------------------------------
\* flush, close

\* DropTable that drops every table of the store
DropEveryTable(st, name) == [n \in DOMAIN st |-> NoTable]

\* Connection.dropTable(name)
DropTable(st, name) == [st EXCEPT ![name] = NoTable]

\* Flush that does not drop the table
FlushKeepsTable(i, f) ==
  LET it == InitializeTable(i, f)
  IN  /\ SetHandles(i, it.conn, it.tbl)
      /\ last' = MkLast("flush", i, <<>>, <<>>, 0, <<>>, 0, it.threw, FALSE, <<>>, it.calls)
      /\ UNCHANGED <<cfg, store, lastWrite, bulk>>

\* flush(): dropTable, this.table = null and initializeTable inside try;
\* dropTable fails on a table that does not exist
Flush(i, f) ==
  LET it    == InitializeTable(i, f)
      name  == cfg[i].tableName
      dFails == Fails(f, "dropTable") \/ ~store[name].exists
      st1   == DropTable(store, name)
      ot    == OpenTable(i, TRUE, FALSE, st1, f)
  IN  IF it.threw
        THEN /\ SetHandles(i, it.conn, it.tbl)
             /\ last' = MkLast("flush", i, <<>>, <<>>, 0, <<>>, 0, TRUE, FALSE, <<>>, it.calls)
             /\ UNCHANGED <<cfg, store, lastWrite, bulk>>
      ELSE IF dFails
        THEN /\ SetHandles(i, it.conn, it.tbl)
             /\ last' = MkLast("flush", i, <<>>, <<>>, 0, <<>>, 0, FALSE, TRUE, <<>>,
                               it.calls \o <<"dropTable">>)
             /\ UNCHANGED <<cfg, store, lastWrite, bulk>>
      ELSE /\ SetHandles(i, it.conn, ot.tbl)
           /\ store' = st1
           /\ last' = MkLast("flush", i, <<>>, <<>>, 0, <<>>, 0, FALSE, FALSE, <<>>,
                             it.calls \o <<"dropTable">> \o ot.calls)
           /\ lastWrite' = IF lastWrite.inst # 0 /\ cfg[lastWrite.inst].tableName = name
                             THEN NoWrite ELSE lastWrite
           /\ UNCHANGED <<cfg, bulk>>

\* Close that also drops the table of the instance
CloseDropsTable(i) ==
  /\ SetHandles(i, FALSE, FALSE)
  /\ store' = [store EXCEPT ![cfg[i].tableName] = NoTable]
  /\ last' = MkLast("close", i, <<>>, <<>>, 0, <<>>, 0, FALSE, FALSE, <<>>, <<"dropTable">>)
  /\ UNCHANGED <<cfg, lastWrite, bulk>>

\* close(): forgets both handles
Close(i) ==
  /\ SetHandles(i, FALSE, FALSE)
  /\ last' = MkLast("close", i, <<>>, <<>>, 0, <<>>, 0, FALSE, FALSE, <<>>, <<>>)
  /\ UNCHANGED <<cfg, store, lastWrite, bulk>>

----------------------------------------------------------------------------
\* The cache as a state machine.  The caller awaits every operation: an
\* operation runs as one step and leaves its outcome in `last`, and the
\* step Return hands the outcome to the caller, who may then start the
\* next operation.

NoOp == MkLast("none", 0, <<>>, <<>>, 0, <<>>, 0, FALSE, FALSE, <<>>, <<>>)

Idle ==
  [active |-> FALSE, op |-> "none", inst |-> 0, keys |-> <<>>, vals |-> <<>>, pc |-> <<>>,
   res |-> <<>>, cand |-> <<>>, calls |-> <<>>, order |-> <<>>, logged |-> FALSE]

\* what is kept of a returned operation: a flush that returned and
\* whether it logged an error, or a close
Summary(l) ==
  IF l.op = "flush" /\ ~l.raised
    THEN [op |-> "flush", inst |-> l.inst, logged |-> l.logged]
  ELSE IF l.op = "close"
    THEN [op |-> "close", inst |-> l.inst, logged |-> FALSE]
    ELSE [op |-> "other", inst |-> 0, logged |-> FALSE]

\* what is kept when operation l returns after the operations summed up
\* in p: also a set that succeeded right after a flush that dropped the
\* table
SummaryAfter(l, p) ==
  IF l.op = "set" /\ ~l.raised /\ p.op = "flush" /\ ~p.logged /\ p.inst = l.inst
    THEN [op |-> "flush, set", inst |-> l.inst, logged |-> FALSE]
    ELSE Summary(l)

InitCommon ==
  /\ connection = [i \in Insts |-> FALSE]
  /\ table = [i \in Insts |-> FALSE]
  /\ store = [n \in TableNames |-> NoTable]
  /\ last = NoOp
  /\ prev = Summary(NoOp)
  /\ lastWrite = NoWrite
  /\ bulk = Idle
  /\ fault = NoFailure
  /\ args = [i \in Insts |-> NoArgs]
  /\ provider = NoProviderCall

Init ==
  /\ cfg \in SingleConfigs
  /\ InitCommon

\* the keys of the bulk operations
BulkKeys == {"k1", "k3"}

BulkKeyLists == UNION {[1..n -> BulkKeys] : n \in 0..MaxBulk}

ValueLists(keys) ==
  {vals \in [1..Len(keys) -> Values] : \A j \in 1..Len(keys) : vals[j] \in ValuesOf(keys[j])}

\* the caller is between two operations
Ready == last = NoOp /\ ~bulk.active

\* the constructor of instance i returned an instance
Constructed(i) == cfg[i].constructed

\* the failure f is one the operation meets: the failing call is among
\* the calls it issued
Met(f) == f = NoFailure \/ InSeq(f.call, last'.calls)

GetStep(i) ==
  /\ Ready
  /\ Constructed(i)
  /\ \E k \in Keys, f \in Failures({"embed", "vectorSearch"}, 1) : Get(i, k, f) /\ Met(f) /\ fault' = f
  /\ UNCHANGED <<prev, args, provider>>

SearchStep(i) ==
  /\ Ready
  /\ Constructed(i)
  /\ \E k \in Keys, limit \in 1..MaxLimit, f \in Failures({"embed", "vectorSearch"}, 1) :
       Search(i, k, limit, f) /\ Met(f) /\ fault' = f
  /\ UNCHANGED <<prev, args, provider>>

SetStep(i) ==
  /\ Ready
  /\ Constructed(i)
  /\ \E k \in Keys, f \in Failures({"embed", "createTable", "add"}, 1) :
       \E v \in ValuesOf(k) : Set(i, k, v, f) /\ Met(f) /\ fault' = f
  /\ UNCHANGED <<prev, args, provider>>

\* set(key, value) in the specification of the bulk operations
SetOneStep(i) ==
  /\ Ready
  /\ Constructed(i)
  /\ \E k \in BulkKeys, f \in Failures({"embed", "createTable", "add"}, 1) :
       \E v \in ValuesOf(k) : Set(i, k, v, f) /\ Met(f) /\ fault' = f
  /\ UNCHANGED <<prev, args, provider>>

\* get(key), search(key, limit) and delete(key) in the specification of
\* all the operations
GetOneStep(i) ==
  /\ Ready
  /\ Constructed(i)
  /\ \E k \in BulkKeys, f \in Failures({"embed", "vectorSearch"}, 1) : Get(i, k, f) /\ Met(f) /\ fault' = f
  /\ UNCHANGED <<prev, args, provider>>

SearchOneStep(i) ==
  /\ Ready
  /\ Constructed(i)
  /\ \E k \in BulkKeys, limit \in 1..MaxLimit, f \in Failures({"embed", "vectorSearch"}, 1) :
       Search(i, k, limit, f) /\ Met(f) /\ fault' = f
  /\ UNCHANGED <<prev, args, provider>>

DeleteOneStep(i) ==
  /\ Ready
  /\ Constructed(i)
  /\ \E k \in BulkKeys, f \in Failures({"delete"}, 1) : Delete(i, k, f) /\ Met(f) /\ fault' = f
  /\ UNCHANGED <<prev, args, provider>>

\* value lists of another length than keys: one value more, or one value
\* less
MismatchedValueLists(keys) ==
  {Append(vals, "v1") : vals \in ValueLists(keys)}
    \cup {SubSeq(vals, 1, Len(keys) - 1) :
            vals \in {v \in ValueLists(keys) : keys # <<>> /\ keys[Len(keys)] = "k3"}}

SetBulkStep(i) ==
  /\ Ready
  /\ Constructed(i)
  /\ \E keys \in BulkKeyLists :
       \E vals \in ValueLists(keys) \cup MismatchedValueLists(keys),
          f \in Failures({"embed"}, Len(keys)) \cup Failures({"createTable", "add"}, 1) :
         SetBulk(i, keys, vals, f) /\ Met(f) /\ fault' = f
  /\ UNCHANGED <<prev, args, provider>>

DeleteStep(i) ==
  /\ Ready
  /\ Constructed(i)
  /\ \E k \in Keys \cup {InjectionKey}, f \in Failures({"delete"}, 1) :
       Delete(i, k, f) /\ Met(f) /\ fault' = f
  /\ UNCHANGED <<prev, args, provider>>

BulkDeleteStep(i) ==
  /\ Ready
  /\ Constructed(i)
  /\ \E keys \in BulkKeyLists, f \in Failures({"delete"}, MaxBulk) :
       BulkDelete(i, keys, f) /\ Met(f) /\ fault' = f
  /\ UNCHANGED <<prev, args, provider>>

FlushStep(i) ==
  /\ Ready
  /\ Constructed(i)
  /\ \E f \in Failures({"dropTable"}, 1) : Flush(i, f) /\ Met(f) /\ fault' = f
  /\ UNCHANGED <<prev, args, provider>>

CloseStep(i) ==
  /\ Ready
  /\ Constructed(i)
  /\ Close(i)
  /\ fault' = NoFailure
  /\ UNCHANGED <<prev, args, provider>>

\* the operation returns (or raises) to the caller
Return ==
  /\ last # NoOp
  /\ last' = NoOp
  /\ prev' = SummaryAfter(last, prev)
  /\ bulk' = Idle
  /\ fault' = NoFailure
  /\ UNCHANGED <<cfg, connection, table, store, lastWrite, args, provider>>

Next ==
  \/ GetStep(1)
  \/ SearchStep(1)
  \/ SetStep(1)
  \/ DeleteStep(1)
  \/ FlushStep(1)
  \/ CloseStep(1)
  \/ Return

Spec == Init /\ [][Next]_vars

----------------------------------------------------------------------------
\* Two instances in different namespaces of one store.  Each instance
\* stores the key k1 under a value of its own, and both look up k1 and k2.

NSValue(i) == IF i = 1 THEN "v1" ELSE "v2"

NSQueryKeys == {"k1", "k2"}

InitNS ==
  /\ cfg \in NamespaceConfigs
  /\ InitCommon

NSSetStep(i) ==
  /\ Ready
  /\ Constructed(i)
  /\ \E f \in Failures({"add"}, 1) : Set(i, "k1", NSValue(i), f) /\ Met(f) /\ fault' = f
  /\ UNCHANGED <<prev, args, provider>>

NSGetStep(i) ==
  /\ Ready
  /\ Constructed(i)
  /\ \E k \in NSQueryKeys : Get(i, k, NoFailure)
  /\ fault' = NoFailure
  /\ UNCHANGED <<prev, args, provider>>

NSSearchStep(i) ==
  /\ Ready
  /\ Constructed(i)
  /\ \E k \in NSQueryKeys, limit \in 1..MaxLimit : Search(i, k, limit, NoFailure)
  /\ fault' = NoFailure
  /\ UNCHANGED <<prev, args, provider>>

NSFlushStep(i) ==
  /\ Ready
  /\ Constructed(i)
  /\ \E f \in Failures({"dropTable"}, 1) : Flush(i, f) /\ Met(f) /\ fault' = f
  /\ UNCHANGED <<prev, args, provider>>

NextNS ==
  \/ \E i \in Insts : NSSetStep(i)
  \/ \E i \in Insts : NSGetStep(i)
  \/ \E i \in Insts : NSSearchStep(i)
  \/ \E i \in Insts : NSFlushStep(i)
  \/ \E i \in Insts : CloseStep(i)
  \/ Return

SpecNS == InitNS /\ [][NextNS]_vars

----------------------------------------------------------------------------
\* Two constructor calls in one process, each with or without an API key
\* in its config, the environment holding a key or none.  An instance
\* whose constructor threw does not exist and takes no step.

ApiKeys == {NoKey, "key"}

KeyConfigs ==
  {[i \in Insts |->
      Constructor([MkConfig(DefaultTableName, IF i = 1 THEN <<"a">> ELSE <<"b">>,
                            DefaultMinProximity)
                     EXCEPT !.voyageApiKey = keys[i]],
                  Env(e))]
   : keys \in [Insts -> ApiKeys], e \in ApiKeys}

InitKeys ==
  /\ cfg \in KeyConfigs
  /\ InitCommon

SpecKeys == InitKeys /\ [][NextNS]_vars

----------------------------------------------------------------------------
\* Constructor calls: new SemanticCache(config) under an environment.  The
\* config and the environment differ from the empty ones in one field or
\* variable each.

StorageOptionInputs ==
  {NoStorageOptions}
    \cup {[NoStorageOptions EXCEPT !.awsAccessKeyId = "id"],
          [NoStorageOptions EXCEPT !.awsSecretAccessKey = "secret"],
          [NoStorageOptions EXCEPT !.awsSessionToken = "token"],
          [NoStorageOptions EXCEPT !.region = "auto"],
          [NoStorageOptions EXCEPT !.endpoint = "https://r2"],
          [NoStorageOptions EXCEPT !.allowHttp = "true"],
          [NoStorageOptions EXCEPT !.allowHttp = "false"],
          [NoStorageOptions EXCEPT !.timeout = "30s"],
          [NoStorageOptions EXCEPT !.connectTimeout = "5s"]}

ConfigInputs ==
  {[BaseConfig EXCEPT !.storageOptions = o] : o \in StorageOptionInputs}
    \cup {[BaseConfig EXCEPT !.voyageApiKey = NoKey],
          [BaseConfig EXCEPT !.minProximity = <<0, 1>>],
          [BaseConfig EXCEPT !.minProximity = <<1, 2>>],
          [BaseConfig EXCEPT !.voyageModel = "voyage-2"],
          [BaseConfig EXCEPT !.dbUri = "s3://bucket"],
          [BaseConfig EXCEPT !.tableName = <<"c">>],
          [BaseConfig EXCEPT !.namespace = <<"a">>]}

EnvInputs ==
  {NoEnv,
   [NoEnv EXCEPT !.VOYAGE_API_KEY = "env-key"],
   [NoEnv EXCEPT !.CACHE_MIN_PROXIMITY = "0"],
   [NoEnv EXCEPT !.CACHE_MIN_PROXIMITY = "0.95"],
   [NoEnv EXCEPT !.VOYAGE_MODEL = "voyage-3"],
   [NoEnv EXCEPT !.LANCEDB_URI = "./env-db"],
   [NoEnv EXCEPT !.CACHE_TABLE_NAME = <<"e">>],
   [NoEnv EXCEPT !.CACHE_NAMESPACE = <<"n">>],
   [NoEnv EXCEPT !.AWS_ACCESS_KEY_ID = "env-id"],
   [NoEnv EXCEPT !.AWS_SECRET_ACCESS_KEY = "env-secret"],
   [NoEnv EXCEPT !.AWS_SESSION_TOKEN = "env-token"],
   [NoEnv EXCEPT !.AWS_REGION = "us-east-1"],
   [NoEnv EXCEPT !.S3_ENDPOINT = "http://minio"],
   [NoEnv EXCEPT !.ALLOW_HTTP = "true"],
   [NoEnv EXCEPT !.ALLOW_HTTP = "false"]}

\* instance i = new SemanticCache(config): the handles of the new
\* instance are null
ConstructStep(i) ==
  /\ Ready
  /\ \E config \in ConfigInputs, env \in EnvInputs :
       /\ args' = [args EXCEPT ![i] = [called |-> TRUE, config |-> config, env |-> env]]
       /\ cfg' = [cfg EXCEPT ![i] = Constructor(config, env)]
  /\ connection' = [connection EXCEPT ![i] = FALSE]
  /\ table' = [table EXCEPT ![i] = FALSE]
  /\ UNCHANGED <<store, last, prev, lastWrite, bulk, fault, provider>>

NextConfig == ConstructStep(1)

SpecConfig == Init /\ [][NextConfig]_vars

----------------------------------------------------------------------------
\* Two instances constructed with table names and namespaces that may hold
\* the separator "_" themselves.  A name is the sequence of its pieces.

BaseNames == {<<"a">>, <<"b">>, <<"a", "_", "b">>}

NamespaceNames == {<<>>, <<"b">>, <<"c">>, <<"b", "_", "c">>}

NamedConfigs == {MkConfig(t, n, NoNumber) : t \in BaseNames, n \in NamespaceNames}

ConstructNamedStep(i) ==
  /\ Ready
  /\ \E config \in NamedConfigs :
       /\ args' = [args EXCEPT ![i] = [called |-> TRUE, config |-> config, env |-> Env("key")]]
       /\ cfg' = [cfg EXCEPT ![i] = Constructor(config, Env("key"))]
  /\ connection' = [connection EXCEPT ![i] = FALSE]
  /\ table' = [table EXCEPT ![i] = FALSE]
  /\ UNCHANGED <<store, last, prev, lastWrite, bulk, fault, provider>>

NextNames == \E i \in Insts : ConstructNamedStep(i)

SpecNames == Init /\ [][NextNames]_vars

----------------------------------------------------------------------------
\* Calls of the provider factory: createProvider(config) under an
\* environment, with tags in either case, unknown tags, and each API key
\* given or not.

ProviderTags == {Unset, "openai", "OpenAI", "GEMINI", "voyage", "Cohere", "azure"}

EnvProviderTags == {Unset, "gemini", "Voyage", "cohere"}

ProviderConfigs ==
  {[provider |-> p, openaiApiKey |-> o, geminiApiKey |-> g, voyageApiKey |-> v] :
     p \in ProviderTags, o \in ApiKeys, g \in ApiKeys, v \in ApiKeys}

ProviderEnvs ==
  {[EMBED_PROVIDER |-> p, OPENAI_API_KEY |-> k, GEMINI_API_KEY |-> NoKey, VOYAGE_API_KEY |-> k] :
     p \in EnvProviderTags, k \in ApiKeys}

CreateProviderStep ==
  /\ Ready
  /\ \E config \in ProviderConfigs, env \in ProviderEnvs :
       provider' = [called |-> TRUE, config |-> config, env |-> env,
                    outcome |-> CreateProvider(config, env)]
  /\ UNCHANGED <<cfg, connection, table, store, last, prev, lastWrite, bulk, fault, args>>

NextFactory == CreateProviderStep

SpecFactory == Init /\ [][NextFactory]_vars

----------------------------------------------------------------------------
\* Calls of embed on a response of the provider's service: the request
\* failed or succeeded, and the embedding of a successful response is
\* missing at any level, empty, or a vector.  provider records the call.

ResponseVectors == {<<>>, <<1, 0>>, <<1, 1>>}

OptionalVectors == {Missing} \cup {Given(v) : v \in ResponseVectors}

\* the data list of OpenAI and VoyageAI: missing, empty, or of one or two items
DataLists ==
  {Missing, Given(<<>>)}
    \cup {Given(<<[embedding |-> e]>>) : e \in OptionalVectors}
    \cup {Given(<<[embedding |-> e], [embedding |-> Given(<<3, 0>>)]>>) : e \in OptionalVectors}

ListResponses == {[ok |-> ok, data |-> d] : ok \in BOOLEAN, d \in DataLists}

\* the embedding object of Gemini: missing, without values, or with values
GeminiResponses ==
  {[ok |-> ok, embedding |-> e] :
     ok \in BOOLEAN,
     e \in {Missing} \cup {Given([values |-> v]) : v \in OptionalVectors}}

EmbedResponses(name) == IF name = GeminiName THEN GeminiResponses ELSE ListResponses

\* the embedding field of a response, whatever the provider
EmbeddingField(name, response) ==
  IF name = GeminiName
    THEN IF response.embedding.defined THEN response.embedding.value.values ELSE Missing
    ELSE IF response.data.defined /\ Len(response.data.value) > 0
           THEN response.data.value[1].embedding
           ELSE Missing

EmbedStep ==
  /\ Ready
  /\ \E name \in {OpenAIName, GeminiName, VoyageName, CacheName} :
       \E response \in EmbedResponses(name) :
         provider' = [called |-> TRUE, name |-> name, response |-> response,
                      outcome |-> Embed(name, response)]
  /\ UNCHANGED <<cfg, connection, table, store, last, prev, lastWrite, bulk, fault, args>>

NextEmbed == EmbedStep

SpecEmbed == Init /\ [][NextEmbed]_vars

----------------------------------------------------------------------------
\* get(keys): Promise.all(keys.map(key => this.queryKey(key))).  Every
\* lookup is an asynchronous function of its own; the lookups are started
\* in the order of the keys and each one runs up to its first pending
\* promise, after which the event loop resumes them in any order.  bulk is
\* the set of lookups in flight: for lookup j, pc[j] is the await it is
\* suspended at, res[j] its result, cand[j] the candidate the store
\* returned to it, calls[j] the external calls it issued; order lists the
\* lookups in the order in which they settled.

Settled == {"done", "rejected"}

\* queryKey up to its first suspension: initializeTable calls
\* initializeConnection, which calls connect() when there is no handle
StartLookups(i, keys) ==
  [active |-> TRUE, op |-> "get", inst |-> i, keys |-> keys, vals |-> <<>>,
   pc     |-> [j \in 1..Len(keys) |-> IF connection[i] THEN "checkTable" ELSE "connecting"],
   res    |-> [j \in 1..Len(keys) |-> Absent],
   cand   |-> [j \in 1..Len(keys) |-> <<>>],
   calls  |-> [j \in 1..Len(keys) |-> IF connection[i] THEN <<>> ELSE <<"connect">>],
   order  |-> <<>>,
   logged |-> FALSE]

\* lookup j moves to pc p, having issued the calls c
Advance(j, p, c) ==
  [bulk EXCEPT !.pc[j] = p, !.calls[j] = @ \o c]

\* lookup j settles at pc p with result r and candidate list cd
Settle(j, p, r, cd, c, lg) ==
  [bulk EXCEPT !.pc[j] = p, !.res[j] = r, !.cand[j] = cd, !.calls[j] = @ \o c,
               !.order = @ \o <<j>>, !.logged = @ \/ lg]

\* the results in the order in which the lookups settled
BulkResultsByCompletion(b) ==
  [n \in 1..Len(b.order) |-> b.res[b.order[n]]]

\* Promise.all: the results in the order of the promises
BulkResults(b) == b.res

RECURSIVE Flatten(_)
Flatten(ss) == IF ss = <<>> THEN <<>> ELSE Head(ss) \o Flatten(Tail(ss))

GetBulkBegin(i) ==
  /\ Ready
  /\ Constructed(i)
  /\ \E keys \in BulkKeyLists : bulk' = StartLookups(i, keys)
  /\ UNCHANGED <<cfg, connection, table, store, last, prev, lastWrite, fault, args, provider>>

\* connect() settles: this.connection = await connect(...)
LookupConnected(j) ==
  /\ bulk.pc[j] = "connecting"
  /\ \/ /\ connection' = [connection EXCEPT ![bulk.inst] = TRUE]
        /\ bulk' = Advance(j, "checkTable", <<>>)
     \/ /\ bulk' = Settle(j, "rejected", Absent, <<>>, <<>>, FALSE)
        /\ UNCHANGED connection
  /\ UNCHANGED <<cfg, table, store, last, prev, lastWrite, fault, args, provider>>

\* initializeTable after initializeConnection: if (!this.table) openTable
LookupCheckTable(j) ==
  /\ bulk.pc[j] = "checkTable"
  /\ bulk' = IF table[bulk.inst] THEN Advance(j, "afterInit", <<>>)
             ELSE Advance(j, "opening", <<"openTable">>)
  /\ UNCHANGED <<cfg, connection, table, store, last, prev, lastWrite, fault, args, provider>>

\* openTable() settles: the handle is assigned, or the failure is swallowed
LookupOpened(j) ==
  /\ bulk.pc[j] = "opening"
  /\ \E ok \in BOOLEAN :
       table' = [table EXCEPT ![bulk.inst] =
                   @ \/ (ok /\ store[cfg[bulk.inst].tableName].exists)]
  /\ bulk' = Advance(j, "afterInit", <<>>)
  /\ UNCHANGED <<cfg, connection, store, last, prev, lastWrite, fault, args, provider>>

\* if (!this.table) return undefined; else the key is embedded
LookupAfterInit(j) ==
  /\ bulk.pc[j] = "afterInit"
  /\ bulk' = IF table[bulk.inst] THEN Advance(j, "embedding", <<"embed">>)
             ELSE Settle(j, "done", Absent, <<>>, <<>>, FALSE)
  /\ UNCHANGED <<cfg, connection, table, store, last, prev, lastWrite, fault, args, provider>>

\* getEmbedding settles; on success the nearest-neighbour query is issued
LookupEmbedded(j) ==
  /\ bulk.pc[j] = "embedding"
  /\ \/ bulk' = Advance(j, "searching", <<"vectorSearch">>)
     \/ bulk' = Settle(j, "done", Absent, <<>>, <<>>, TRUE)
  /\ UNCHANGED <<cfg, connection, table, store, last, prev, lastWrite, fault, args, provider>>

\* the query settles; the candidate goes through the gate
LookupSearched(j) ==
  /\ bulk.pc[j] = "searching"
  /\ LET i  == bulk.inst
         k  == bulk.keys[j]
         st == store[cfg[i].tableName]
     IN  \/ bulk' = Settle(j, "done", Absent, <<>>, <<>>, TRUE)
         \/ /\ st.exists
            /\ \E c \in VectorSearch(st.rows, Embedding(k), 1) :
                 bulk' = Settle(j, "done", GateResult(i, k, c), c, <<>>, FALSE)
  /\ UNCHANGED <<cfg, connection, table, store, last, prev, lastWrite, fault, args, provider>>

LookupStep(j) ==
  /\ bulk.active
  /\ bulk.op = "get"
  /\ j \in 1..Len(bulk.keys)
  /\ \/ LookupConnected(j)
     \/ LookupCheckTable(j)
     \/ LookupOpened(j)
     \/ LookupAfterInit(j)
     \/ LookupEmbedded(j)
     \/ LookupSearched(j)

\* every lookup has settled: get(keys) returns the results, or raises if
\* a lookup rejected
GetBulkReturn ==
  /\ bulk.active
  /\ bulk.op = "get"
  /\ \A j \in 1..Len(bulk.keys) : bulk.pc[j] \in Settled
  /\ LET raised == \E j \in 1..Len(bulk.keys) : bulk.pc[j] = "rejected"
     IN  last' = MkLast("getBulk", bulk.inst, bulk.keys, <<>>, 0,
                        IF raised THEN <<>> ELSE BulkResults(bulk), 0,
                        raised, bulk.logged, bulk.cand, Flatten(bulk.calls))
  /\ bulk' = [bulk EXCEPT !.active = FALSE]
  /\ UNCHANGED <<cfg, connection, table, store, prev, lastWrite, fault, args, provider>>

NextBulk ==
  \/ SetOneStep(1)
  \/ SetBulkStep(1)
  \/ BulkDeleteStep(1)
  \/ GetBulkBegin(1)
  \/ \E j \in 1..MaxBulk : LookupStep(j)
  \/ GetBulkReturn
  \/ CloseStep(1)
  \/ Return

SpecBulk == Init /\ [][NextBulk]_vars

\* the bulk writes and deletes alone
NextBulkWrite ==
  \/ SetOneStep(1)
  \/ SetBulkStep(1)
  \/ BulkDeleteStep(1)
  \/ CloseStep(1)
  \/ Return

SpecBulkWrite == Init /\ [][NextBulkWrite]_vars

\* every operation of one instance, the keys being those of the bulk
\* operations
NextOps ==
  \/ GetOneStep(1)
  \/ SearchOneStep(1)
  \/ SetOneStep(1)
  \/ SetBulkStep(1)
  \/ DeleteOneStep(1)
  \/ BulkDeleteStep(1)
  \/ FlushStep(1)
  \/ CloseStep(1)
  \/ Return

SpecOps == Init /\ [][NextOps]_vars


----------------------------------------------------------------------------
\* Two calls set(key, value) issued on one instance without awaiting the
\* first, while the table of the instance does not exist.  Each call is an
\* asynchronous function of its own; they interleave at their awaits.
\* res[j] tells why call j rejected: "exists" when createTable refused a
\* table that exists, Absent when an external call failed.

\* both calls run up to their first suspension, like the lookups of a
\* bulk get
StartSets(i, keys, vals) ==
  [StartLookups(i, keys) EXCEPT !.op = "set", !.vals = vals]

SetsBegin(i) ==
  /\ Ready
  /\ Constructed(i)
  /\ ~store[cfg[i].tableName].exists
  /\ \E keys \in [1..2 -> BulkKeys] : \E vals \in ValueLists(keys) :
       bulk' = StartSets(i, keys, vals)
  /\ UNCHANGED <<cfg, connection, table, store, last, prev, lastWrite, fault, args, provider>>

\* initializeTable returned: const embedding = await this.getEmbedding(key)
SetAfterInit(j) ==
  /\ bulk.pc[j] = "afterInit"
  /\ bulk' = Advance(j, "embedding", <<"embed">>)
  /\ UNCHANGED <<cfg, connection, table, store, last, prev, lastWrite, fault, args, provider>>

\* getEmbedding settles; on success ensureTableExists runs up to its
\* await: if (!this.table) createTable(...)
SetEmbedded(j) ==
  /\ bulk.pc[j] = "embedding"
  /\ \/ bulk' = Settle(j, "rejected", Absent, <<>>, <<>>, FALSE)
     \/ bulk' = IF table[bulk.inst] THEN Advance(j, "ensured", <<>>)
                ELSE Advance(j, "creating", <<"createTable">>)
  /\ UNCHANGED <<cfg, connection, table, store, last, prev, lastWrite, fault, args, provider>>

\* createTable(name, [record]) settles: the store creates the table with
\* the record and the handle is assigned, or the store refuses because the
\* table exists, or the call fails
SetCreated(j) ==
  /\ bulk.pc[j] = "creating"
  /\ LET i    == bulk.inst
         name == cfg[i].tableName
         rec  == CacheRecord(bulk.keys[j], bulk.vals[j])
     IN  \/ /\ ~store[name].exists
            /\ store' = [store EXCEPT ![name] = [exists |-> TRUE, rows |-> AddRows(NoRows, <<rec>>)]]
            /\ table' = [table EXCEPT ![i] = TRUE]
            /\ bulk' = Advance(j, "ensured", <<>>)
         \/ /\ store[name].exists
            /\ bulk' = Settle(j, "rejected", "exists", <<>>, <<>>, FALSE)
            /\ UNCHANGED <<store, table>>
         \/ /\ bulk' = Settle(j, "rejected", Absent, <<>>, <<>>, FALSE)
            /\ UNCHANGED <<store, table>>
  /\ UNCHANGED <<cfg, connection, last, prev, lastWrite, fault, args, provider>>

\* ensureTableExists returned: await this.table!.add([record])
SetEnsured(j) ==
  /\ bulk.pc[j] = "ensured"
  /\ bulk' = Advance(j, "adding", <<"add">>)
  /\ UNCHANGED <<cfg, connection, table, store, last, prev, lastWrite, fault, args, provider>>

\* add settles
SetAdded(j) ==
  /\ bulk.pc[j] = "adding"
  /\ LET name == cfg[bulk.inst].tableName
         rec  == CacheRecord(bulk.keys[j], bulk.vals[j])
     IN  \/ /\ store[name].exists
            /\ RowCount(store[name].rows) < MaxRows
            /\ store' = [store EXCEPT ![name].rows = AddRows(@, <<rec>>)]
            /\ bulk' = Settle(j, "done", "stored", <<>>, <<>>, FALSE)
         \/ /\ bulk' = Settle(j, "rejected", Absent, <<>>, <<>>, FALSE)
            /\ UNCHANGED store
  /\ UNCHANGED <<cfg, connection, table, last, prev, lastWrite, fault, args, provider>>

SetCallStep(j) ==
  /\ bulk.active
  /\ bulk.op = "set"
  /\ j \in 1..Len(bulk.keys)
  /\ \/ LookupConnected(j)
     \/ LookupCheckTable(j)
     \/ LookupOpened(j)
     \/ SetAfterInit(j)
     \/ SetEmbedded(j)
     \/ SetCreated(j)
     \/ SetEnsured(j)
     \/ SetAdded(j)

\* both calls have settled; res says of each call whether it stored its
\* record, and why not.  The last write is the call that settled last
\* if it stored its record
SetsReturn ==
  /\ bulk.active
  /\ bulk.op = "set"
  /\ \A j \in 1..Len(bulk.keys) : bulk.pc[j] \in Settled
  /\ LET raised == \E j \in 1..Len(bulk.keys) : bulk.pc[j] = "rejected"
         l      == bulk.order[Len(bulk.order)]
     IN  /\ last' = MkLast("sets", bulk.inst, bulk.keys, bulk.vals, 0, bulk.res, 0,
                           raised, FALSE, <<>>, Flatten(bulk.calls))
         /\ lastWrite' = IF bulk.pc[l] = "done"
                           THEN [inst |-> bulk.inst, keys |-> <<bulk.keys[l]>>,
                                 vals |-> <<bulk.vals[l]>>]
                           ELSE NoWrite
  /\ bulk' = [bulk EXCEPT !.active = FALSE]
  /\ UNCHANGED <<cfg, connection, table, store, prev, fault, args, provider>>

NextSets ==
  \/ SetsBegin(1)
  \/ \E j \in 1..2 : SetCallStep(j)
  \/ SetsReturn
  \/ FlushStep(1)
  \/ CloseStep(1)
  \/ Return

SpecSets == Init /\ [][NextSets]_vars

----------------------------------------------------------------------------
\* A table that an earlier run filled under an embedding model of another
\* dimension: the lookups of this run meet a record whose vector is longer
\* than the query's.

InitDim ==
  /\ cfg \in SingleConfigs
  /\ connection = [i \in Insts |-> FALSE]
  /\ table = [i \in Insts |-> FALSE]
  /\ store = [n \in TableNames |->
               IF n = cfg[1].tableName
                 THEN [exists |-> TRUE, rows |-> [NoRows EXCEPT ![ForeignRecord] = 1]]
                 ELSE NoTable]
  /\ last = NoOp
  /\ prev = Summary(NoOp)
  /\ lastWrite = NoWrite
  /\ bulk = Idle
  /\ fault = NoFailure
  /\ args = [i \in Insts |-> NoArgs]
  /\ provider = NoProviderCall

NextDim ==
  \/ GetStep(1)
  \/ SearchStep(1)
  \/ DeleteStep(1)
  \/ FlushStep(1)
  \/ CloseStep(1)
  \/ Return

SpecDim == InitDim /\ [][NextDim]_vars

----------------------------------------------------------------------------
\* A caller that stores records under the key k1 and under a key that
\* holds a quote, and deletes by either key.

QuotedKeys == {"k1", InjectionKey}

SetQuotedStep(i) ==
  /\ Ready
  /\ Constructed(i)
  /\ \E k \in QuotedKeys, f \in Failures({"add"}, 1) :
       Set(i, k, "v1", f) /\ Met(f) /\ fault' = f
  /\ UNCHANGED <<prev, args, provider>>

NextQuoted ==
  \/ SetQuotedStep(1)
  \/ DeleteStep(1)
  \/ SearchStep(1)
  \/ Return

SpecQuoted == Init /\ [][NextQuoted]_vars

----------------------------------------------------------------------------
\* Properties of get.

Rows(i) == store[cfg[i].tableName].rows

\* the rows of a table as a multiset of (id, text, value)
Projection(r) == <<r.id, r.text, r.value>>

Occurrences(s, x) == Cardinality({j \in 1..Len(s) : s[j] = x})

\* C1: get(key) returns a value only if the store returned a record as the
\* single nearest neighbour of the query, the value is that record's value
\* and the record's computed cosine similarity to the query embedding is at
\* least minProximity; with no record or a lower similarity it returns absent.
C1_GetIsGated ==
  (last.op = "get" /\ ~last.raised) =>
    LET i == last.inst
        k == last.keys[1]
    IN  /\ Len(last.res) = 1
        /\ Len(last.cand) <= 1
        /\ last.res[1] # Absent =>
             /\ Len(last.cand) = 1
             /\ Rows(i)[last.cand[1]] > 0
             /\ \A r \in Records :
                  Rows(i)[r] > 0 =>
                    L2Distance(Embedding(k), last.cand[1].vector)
                      <= L2Distance(Embedding(k), r.vector)
             /\ last.res[1] = last.cand[1].value
             /\ NumGE(cosineSimilarity(Embedding(k), last.cand[1].vector),
                      Threshold(cfg[i].minProximity))

\* a get returned the value of a record that is not the query's own
C1_Witness ==
  /\ last.op = "get"
  /\ last.res = <<"v1">>
  /\ last.keys = <<"k1">>
  /\ last.cand[1].id = "k2"

\* C2: after a successful set(key, value) that is the last write, with no
\* later delete of key and no flush, get(key) with the same text returns
\* value (the provider is deterministic, minProximity <= 1, the key does
\* not embed to the zero vector and the get meets no failure).
C2_GetAfterSet ==
  (/\ last.op = "get"
   /\ ~last.raised
   /\ ~last.logged
   /\ lastWrite.inst = last.inst
   /\ Len(lastWrite.keys) = 1
   /\ lastWrite.keys = last.keys
   /\ Embedding(last.keys[1]) # <<0, 0>>)
    => last.res = lastWrite.vals

\* C3: get never raises: no failure of a call made for get reaches the caller.
C3_GetNeverRaises == last.op = "get" => ~last.raised

----------------------------------------------------------------------------
\* Properties of search.

\* the similarities of a result sequence are numbers in descending order
Descending(res) ==
  \A j \in 1..(Len(res) - 1) : NumGE(res[j].similarity, res[j + 1].similarity)

C5_SearchNotGated ==
  (last.op = "search" /\ ~last.raised) =>
    /\ Len(last.res) = Len(last.cand)
    /\ \A r \in Records :
         Occurrences([j \in 1..Len(last.res) |->
                        <<last.res[j].id, last.res[j].text, last.res[j].value>>],
                     Projection(r))
           = Occurrences([j \in 1..Len(last.cand) |-> Projection(last.cand[j])],
                         Projection(r))

\* a search returned a record whose similarity is below minProximity
C5_Witness ==
  /\ last.op = "search"
  /\ \E j \in 1..Len(last.res) :
       /\ ~last.res[j].similarity.nan
       /\ ~NumGE(last.res[j].similarity, Threshold(cfg[last.inst].minProximity))

----------------------------------------------------------------------------
\* Properties of flush and close.

C10_CloseIsLocal ==
  [][(last'.op = "close" /\ last.op = "none") =>
       /\ store' = store
       /\ last'.calls = <<>>
       /\ ~connection'[last'.inst]
       /\ ~table'[last'.inst]
       /\ \A j \in Insts \ {last'.inst} :
            connection'[j] = connection[j] /\ table'[j] = table[j]]_vars

\* a close of an instance that held a handle on a table with rows
C10_Witness ==
  /\ last.op = "close"
  /\ store[cfg[last.inst].tableName].exists
  /\ RowCount(Rows(last.inst)) > 0

----------------------------------------------------------------------------
\* Properties of close.

\* the values a get(k) on instance i can return when no call fails, the
\* table handle being tbl and the store st
GetAnswers(i, k, tbl, st) ==
  {o.res : o \in QueryKey(i, k, OpenTable(i, TRUE, tbl, st, NoFailure).tbl, st, NoFailure)}

\* the result sequences a search(k, limit) on instance i can return when
\* no call fails, the table handle being tbl and the store st
SearchAnswers(i, k, limit, tbl, st) ==
  {o.res : o \in SearchKey(i, k, limit, OpenTable(i, TRUE, tbl, st, NoFailure).tbl, st,
                           NoFailure)}

\* the operation that starts at this step is the first one of the
\* instance after its close
FirstAfterClose ==
  /\ last.op = "none"
  /\ prev.op = "close"
  /\ last'.op \notin {"none", "close"}
  /\ last'.inst = prev.inst

\* C11: close() is not terminal: a close leaves unchanged what get and
\* search on the instance return (when no call fails), and the next
\* operation of the instance connects again and opens the table again
\* before anything else.
C11_CloseNotTerminal ==
  [][/\ \A i \in Insts :
          (last.op = "none" /\ last'.op = "close" /\ last'.inst = i) =>
            /\ \A k \in Keys :
                 GetAnswers(i, k, table'[i], store') = GetAnswers(i, k, table[i], store)
            /\ \A k \in Keys, limit \in 1..MaxLimit :
                 SearchAnswers(i, k, limit, table'[i], store')
                   = SearchAnswers(i, k, limit, table[i], store)
     /\ FirstAfterClose =>
          /\ last'.calls[1] = "connect"
          /\ ~last'.raised => (Len(last'.calls) >= 2 /\ last'.calls[2] = "openTable")]_vars

\* the get after a close connected, opened the table and returned the
\* value written before the close
C11_Witness ==
  /\ prev.op = "close"
  /\ last.op = "get"
  /\ last.inst = prev.inst
  /\ last.calls = <<"connect", "openTable", "embed", "vectorSearch">>
  /\ last.res = <<"v1">>
  /\ lastWrite.keys = last.keys

----------------------------------------------------------------------------
\* Properties of delete and bulkDelete.

\* the call `call` was issued by the last operation and failed
Faulted(call) ==
  fault.call = call /\ Occurrences(last.calls, call) >= fault.at

\* C12: delete(key) is best-effort: when the delete call of the store
\* fails, or the table does not exist (the connection being established),
\* it returns 0 and raises nothing; its result is always 0 or 1.
C12_DeleteBestEffort ==
  last.op = "delete" =>
    /\ last.count \in {0, 1}
    /\ (\/ Faulted("delete")
        \/ ~Faulted("connect") /\ ~store[cfg[last.inst].tableName].exists)
         => (last.count = 0 /\ ~last.raised)

\* a delete whose store call failed on a table with rows returned 0
C12_Witness ==
  /\ last.op = "delete"
  /\ Faulted("delete")
  /\ RowCount(Rows(last.inst)) > 0
  /\ last.count = 0
  /\ ~last.raised

\* C13: delete(key) returns the number of records it removed from the
\* table, 0 when no record with id key existed.
C13_DeleteCount ==
  [][\A i \in Insts :
       (last.op = "none" /\ last'.op = "delete" /\ last'.inst = i /\ ~last'.raised) =>
         last'.count = RowCount(store[cfg[i].tableName].rows)
                         - RowCount(store'[cfg[i].tableName].rows)]_vars

\* C14: bulkDelete(keys) on an absent or empty table returns 0, the
\* number of records removed, and does not raise, for every list of keys
\* (the connection being established).
C14_BulkDeleteOnEmpty ==
  [][\A i \in Insts :
       (/\ last.op = "none"
        /\ last'.op = "bulkDelete"
        /\ last'.inst = i
        /\ fault'.call # "connect"
        /\ \/ ~store[cfg[i].tableName].exists
           \/ RowCount(store[cfg[i].tableName].rows) = 0)
         => (~last'.raised /\ last'.count = 0)]_vars

C16_NoErrorThrown ==
  last.op \in {"search", "delete", "bulkDelete", "flush"} => ~last.raised

\* C17: set does not swallow failures: when the embedding call, createTable
\* or add fails during set, in single or bulk form, set raises.
C17_SetPropagates ==
  (/\ last.op \in {"set", "setBulk"}
   /\ Faulted("embed") \/ Faulted("createTable") \/ Faulted("add"))
    => last.raised

\* a bulk set of two keys raised the failure of its add call
C17_Witness ==
  /\ last.op = "setBulk"
  /\ Len(last.keys) = 2
  /\ Faulted("add")
  /\ last.raised

----------------------------------------------------------------------------
\* Properties of bulk set.

\* C18: a bulk set whose lists differ in length is rejected with a
\* validation error before anything is embedded or written: it raises,
\* issues no embedding request and leaves the store unchanged.
C18_LengthMismatchRejected ==
  [][(/\ last.op = "none"
      /\ last'.op = "setBulk"
      /\ Len(last'.keys) # Len(last'.vals)
      /\ fault' = NoFailure)
       => /\ last'.raised
          /\ Occurrences(last'.calls, "embed") = 0
          /\ store' = store]_vars

\* C19: a bulk set with an empty key list is a no-op: it issues no
\* embedding request, creates no table and adds no record, and the store
\* is unchanged.
C19_EmptyBulkSetNoOp ==
  [][(last.op = "none" /\ last'.op = "setBulk" /\ last'.keys = <<>>) =>
       /\ Occurrences(last'.calls, "embed") = 0
       /\ Occurrences(last'.calls, "createTable") = 0
       /\ Occurrences(last'.calls, "add") = 0
       /\ store' = store]_vars

\* an empty bulk set on a fresh instance returned after connecting and
\* looking for the table, which still does not exist
C19_Witness ==
  /\ last.op = "setBulk"
  /\ last.keys = <<>>
  /\ last.vals = <<>>
  /\ ~last.raised
  /\ last.calls = <<"connect", "openTable">>
  /\ ~store[cfg[last.inst].tableName].exists

----------------------------------------------------------------------------
\* Properties of the constructor.

----------------------------------------------------------------------------
\* Properties of the configuration.

\* the value that precedence gives a field: the argument when given, else
\* the variable when set, else the default
Precedence(given, arg, set, var, default) ==
  IF given THEN arg ELSE IF set THEN var ELSE default

\* C21: every field of a constructed instance has the value of the
\* constructor argument when one is given, else of the environment variable
\* when it is set, else the documented default; a minProximity of 0 is a
\* value like any other, in the argument and in the variable.
C21_ConfigPrecedence ==
  \A i \in Insts :
    args[i].called /\ cfg[i].constructed =>
      LET c == args[i].config
          e == args[i].env
          o == c.storageOptions
          s == StorageOptionsOf(NoStorageOptions, NoEnv)
          r == [n \in DOMAIN s |-> IF n \in DOMAIN cfg[i].storageOptions
                                     THEN cfg[i].storageOptions[n] ELSE Unset]
          ns == Precedence(c.namespace # <<>>, c.namespace,
                           e.CACHE_NAMESPACE # <<>>, e.CACHE_NAMESPACE, <<>>)
          tn == Precedence(c.tableName # <<>>, c.tableName,
                           e.CACHE_TABLE_NAME # <<>>, e.CACHE_TABLE_NAME, DefaultTableName)
      IN  /\ cfg[i].minProximity =
               Precedence(c.minProximity # NoNumber, c.minProximity,
                          e.CACHE_MIN_PROXIMITY # Unset, Number(e.CACHE_MIN_PROXIMITY),
                          DefaultMinProximity)
          /\ cfg[i].apiKey =
               Precedence(c.voyageApiKey # NoKey, c.voyageApiKey,
                          e.VOYAGE_API_KEY # NoKey, e.VOYAGE_API_KEY, NoKey)
          /\ cfg[i].voyageModel =
               Precedence(c.voyageModel # Unset, c.voyageModel,
                          e.VOYAGE_MODEL # Unset, e.VOYAGE_MODEL, DefaultVoyageModel)
          /\ cfg[i].dbUri =
               Precedence(c.dbUri # Unset, c.dbUri,
                          e.LANCEDB_URI # Unset, e.LANCEDB_URI, DefaultDbUri)
          /\ cfg[i].namespace = ns
          /\ cfg[i].tableName = (IF ns # <<>> THEN tn \o <<"_">> \o ns ELSE tn)
          /\ r.awsAccessKeyId =
               Precedence(o.awsAccessKeyId # Unset, o.awsAccessKeyId,
                          e.AWS_ACCESS_KEY_ID # Unset, e.AWS_ACCESS_KEY_ID, Unset)
          /\ r.awsSecretAccessKey =
               Precedence(o.awsSecretAccessKey # Unset, o.awsSecretAccessKey,
                          e.AWS_SECRET_ACCESS_KEY # Unset, e.AWS_SECRET_ACCESS_KEY, Unset)
          /\ r.awsSessionToken =
               Precedence(o.awsSessionToken # Unset, o.awsSessionToken,
                          e.AWS_SESSION_TOKEN # Unset, e.AWS_SESSION_TOKEN, Unset)
          /\ r.region =
               Precedence(o.region # Unset, o.region,
                          e.AWS_REGION # Unset, e.AWS_REGION, Unset)
          /\ r.endpoint =
               Precedence(o.endpoint # Unset, o.endpoint,
                          e.S3_ENDPOINT # Unset, e.S3_ENDPOINT, Unset)
          /\ r.allowHttp =
               Precedence(o.allowHttp # Absent, o.allowHttp,
                          e.ALLOW_HTTP # Unset, e.ALLOW_HTTP, "false")
          /\ r.timeout = o.timeout
          /\ r.connectTimeout = o.connectTimeout

----------------------------------------------------------------------------
\* Properties of the table's creation.

----------------------------------------------------------------------------
\* Properties of the delete filter.

\* C23: a delete or bulkDelete removes no record whose id is not one of
\* the keys it was given, whatever the text of the keys (quotes and filter
\* operators included).
C23_DeleteOnlyGivenKeys ==
  [][last'.op \in {"delete", "bulkDelete"} /\ last.op = "none" =>
       \A n \in TableNames, r \in Records :
         ~InSeq(r.id, last'.keys) => store'[n].rows[r] = store[n].rows[r]]_vars

----------------------------------------------------------------------------
\* Properties of the provider factory.

\* the tag a call selects: config.provider, else EMBED_PROVIDER, else the
\* default
SelectedTag ==
  Precedence(provider.config.provider # Unset, provider.config.provider,
             provider.env.EMBED_PROVIDER # Unset, provider.env.EMBED_PROVIDER, DefaultProvider)

\* the API key of the selected provider is given, in the config or in the
\* environment
SelectedKeyGiven ==
  CASE ToLowerCase(SelectedTag) = "openai" ->
         provider.config.openaiApiKey # NoKey \/ provider.env.OPENAI_API_KEY # NoKey
    [] ToLowerCase(SelectedTag) = "gemini" ->
         provider.config.geminiApiKey # NoKey \/ provider.env.GEMINI_API_KEY # NoKey
    [] OTHER ->
         provider.config.voyageApiKey # NoKey \/ provider.env.VOYAGE_API_KEY # NoKey

\* C24: the tag is config.provider, else EMBED_PROVIDER, else voyage; a tag
\* that is none of openai, gemini, voyage in any case of letters is
\* rejected with the error naming the unsupported provider; a known tag
\* whose API key is given yields a provider whose getName() is the tag in
\* lower case.
C24_ProviderFactory ==
  provider.called =>
    /\ ToLowerCase(SelectedTag) \notin SupportedProviders =>
         provider.outcome = ProviderError("Unsupported embedding provider")
    /\ ToLowerCase(SelectedTag) \in SupportedProviders =>
         /\ provider.outcome.error # "Unsupported embedding provider"
         /\ SelectedKeyGiven <=> ~provider.outcome.raised
         /\ ~provider.outcome.raised => provider.outcome.name = ToLowerCase(SelectedTag)

\* a tag of the environment in capitals is accepted, and an unknown tag of
\* the environment rejected
C24_Witness ==
  /\ provider.called
  /\ provider.config.provider = Unset
  /\ \/ provider.env.EMBED_PROVIDER = "Voyage" /\ provider.outcome = Provider("voyage")
     \/ provider.env.EMBED_PROVIDER = "cohere" /\ provider.outcome.raised

----------------------------------------------------------------------------
\* Properties of the stored records.

\* C25: a set (single or bulk) of n >= 1 pairs that creates the table of
\* its instance leaves exactly n records in it.
C25_FreshTableWrite ==
  [][/\ last.op = "none"
     /\ last'.op \in {"set", "setBulk"}
     /\ ~last'.raised
     /\ ~store[cfg[1].tableName].exists
     /\ store'[cfg[1].tableName].exists
     => RowCount(store'[cfg[1].tableName].rows) = Len(last'.keys)]_vars

\* C26: after any sequence of sets no table holds two different records
\* of one id (a record of an earlier set of the id next to the record of
\* the most recent one).
C26_OneRecordPerId ==
  \A n \in TableNames, k \in Keys :
    Cardinality({r \in Records : r.id = k /\ store[n].rows[r] > 0}) <= 1

----------------------------------------------------------------------------
\* Properties of the handles.

\* C27: an operation of an instance that returns to its caller without
\* raising has issued at most one connect call to the store, the lookups
\* of a bulk get taken together.
C27_OneConnection == ~last.raised => Occurrences(last.calls, "connect") <= 1

\* C28: an operation other than flush and close that starts while its
\* instance holds a table handle issues no openTable and no createTable
\* call and leaves the handle in place.
C28_TableInitIdempotent ==
  [][/\ last.op = "none"
     /\ last'.op \notin {"none", "flush", "close"}
     /\ table[last'.inst]
     => /\ ~InSeq("openTable", last'.calls)
        /\ ~InSeq("createTable", last'.calls)
        /\ table'[last'.inst]]_vars

\* a lookup on the handle that an earlier set left: the set created the
\* table, the lookup embeds and searches without opening it
C28_Witness ==
  /\ last.op = "get"
  /\ last.calls = <<"embed", "vectorSearch">>
  /\ lastWrite.inst = 1
  /\ table[1]

\* C29: of two set calls issued concurrently while the table does not
\* exist, none of whose external calls fails, createTable is called at most
\* once, neither call raises, and the table then holds the records of both.
C29_ConcurrentSetsSafe ==
  last.op = "sets" /\ (\A j \in 1..2 : last.res[j] # Absent) =>
    /\ Occurrences(last.calls, "createTable") <= 1
    /\ ~last.raised
    /\ \A j \in 1..2 :
         store[cfg[1].tableName].rows[CacheRecord(last.keys[j], last.vals[j])] >= 1

----------------------------------------------------------------------------
\* Properties of the embedding requests.

\* none of the calls that follow the embedding was issued
AbortedAfterEmbed ==
  \A c \in {"vectorSearch", "createTable", "add"} : ~InSeq(c, last.calls)

\* C30: get, search and set of one key issue one embedding request when
\* they come to embed the key (set when it has its connection, the lookups
\* when they also hold the table) and none otherwise; a request that fails
\* is not repeated and ends the operation before any store call (the
\* lookup answers empty, the set raises); a bulk set embeds its keys up to
\* the first failing request and no key after it.
C30_NoRetry ==
  LET n == Occurrences(last.calls, "embed")
  IN  /\ last.op \in {"get", "search"} =>
           /\ n = (IF ~last.raised /\ table[last.inst] THEN 1 ELSE 0)
           /\ Faulted("embed") =>
                AbortedAfterEmbed /\ last.res = (IF last.op = "get" THEN <<Absent>> ELSE <<>>)
      /\ last.op = "set" =>
           /\ n = (IF Faulted("connect") THEN 0 ELSE 1)
           /\ Faulted("embed") => AbortedAfterEmbed /\ last.raised
      /\ last.op = "setBulk" =>
           /\ n = (IF Faulted("connect") THEN 0
                   ELSE IF Faulted("embed") THEN fault.at
                   ELSE Len(last.keys))
           /\ Faulted("embed") => AbortedAfterEmbed /\ last.raised

\* a bulk set of two keys whose first embedding request fails: one
\* request, nothing written
C30_Witness ==
  /\ last.op = "setBulk"
  /\ Len(last.keys) = 2
  /\ fault = Failure("embed", 1)
  /\ Occurrences(last.calls, "embed") = 1
  /\ last.raised

----------------------------------------------------------------------------
\* Properties of flush, of the lookups' completeness and of the frame of
\* the operations.

\* C31: a bulk set one of whose embedding requests fails raises and leaves
\* the store as it was: no record of the call is written and no table is
\* created.
C31_BulkSetAllOrNothing ==
  [][/\ last.op = "none"
     /\ last'.op = "setBulk"
     /\ fault'.call = "embed"
     /\ fault'.at <= Len(last'.keys)
     => last'.raised /\ store' = store]_vars

\* a bulk set of two keys whose second embedding request fails, on a
\* store without the table
C31_Witness ==
  /\ last.op = "setBulk"
  /\ Len(last.keys) = 2
  /\ fault = Failure("embed", 2)
  /\ last.raised
  /\ ~store[cfg[1].tableName].exists

\* C32: after a flush whose store calls succeed the table of the instance
\* exists in the store and holds no record.
C32_FlushRecreates ==
  [][/\ last.op = "none"
     /\ last'.op = "flush"
     /\ ~last'.raised
     /\ ~last'.logged
     /\ fault' = NoFailure
     => /\ store'[cfg[last'.inst].tableName].exists
        /\ RowCount(store'[cfg[last'.inst].tableName].rows) = 0]_vars

\* C33: on one instance, after a flush that dropped the table and a
\* successful set(k, v) right after it, get(k) returns v and search
\* returns only records of that set (the provider is deterministic, the
\* key does not embed to the zero vector, the lookup meets no failure).
C33_UsableAfterFlush ==
  (/\ prev.op = "flush, set"
   /\ prev.inst = last.inst
   /\ lastWrite.inst = last.inst
   /\ last.keys = lastWrite.keys
   /\ Embedding(last.keys[1]) # <<0, 0>>
   /\ fault = NoFailure)
    => /\ last.op = "get" => ~last.raised /\ last.res = lastWrite.vals
       /\ last.op = "search" =>
            /\ ~last.raised
            /\ \A j \in 1..Len(last.res) :
                 last.res[j].id = lastWrite.keys[1] /\ last.res[j].value = lastWrite.vals[1]

\* C34: whenever the table holds a record whose cosine similarity to the
\* embedding of the query, as the scorer computes it, is >= minProximity, a
\* get of the query that meets no failure returns a value.
C34_GetComplete ==
  (/\ last.op = "get"
   /\ ~last.raised
   /\ ~last.logged
   /\ table[last.inst]
   /\ \E r \in Records :
        /\ store[cfg[last.inst].tableName].rows[r] > 0
        /\ PassesGate(cosineSimilarity(Embedding(last.keys[1]), r.vector),
                      cfg[last.inst].minProximity))
    => last.res # <<Absent>>

\* C35: a lookup whose candidates hold a record of another dimension than
\* the query's makes the scorer throw; the lookup catches the error: get
\* returns the absent value, search returns the empty sequence, and neither
\* rejects.
C35_DimensionMismatchIsMiss ==
  (/\ last.op \in {"get", "search"}
   /\ \E j \in 1..Len(last.cand) : Len(last.cand[j].vector) # Len(Embedding(last.keys[1])))
    => /\ ~last.raised
       /\ last.op = "get" => last.res = <<Absent>>
       /\ last.op = "search" => last.res = <<>>

C35_Witness ==
  /\ last.op = "search" /\ ~last.raised /\ last.res = <<>> /\ last.logged
  /\ Len(last.cand) = 1 /\ last.cand[1] = ForeignRecord /\ last.keys = <<"k1">>

\* the storage variables of the environment
StorageEnvNames ==
  {"AWS_ACCESS_KEY_ID", "AWS_SECRET_ACCESS_KEY", "AWS_SESSION_TOKEN", "AWS_REGION",
   "S3_ENDPOINT", "ALLOW_HTTP"}

\* C37: an instance constructed with no storage option in its config and no
\* storage variable in the environment resolves no storage options, and
\* connect() is called with the URI alone.
C37_UnconfiguredStorage ==
  (/\ args[1].called /\ cfg[1].constructed
   /\ args[1].config.storageOptions = NoStorageOptions
   /\ \A n \in StorageEnvNames : args[1].env[n] = Unset)
    => /\ DOMAIN cfg[1].storageOptions = {}
       /\ ConnectArguments(cfg[1]) = <<cfg[1].dbUri>>

\* C38: two instances whose (table name, namespace) pairs differ have
\* different physical table names.
C38_TableNameInjective ==
  (/\ args[1].called /\ args[2].called
   /\ <<args[1].config.tableName, args[1].config.namespace>>
        # <<args[2].config.tableName, args[2].config.namespace>>)
    => cfg[1].tableName # cfg[2].tableName

NoEmbeddingErrors ==
  {"Failed to get OpenAI embedding: No embedding returned from OpenAI",
   "Failed to get Gemini embedding: No embedding returned from Gemini",
   "Failed to get VoyageAI embedding: No embedding returned from VoyageAI",
   "Failed to get embedding: No embedding returned from VoyageAI"}

\* C39: embed on a successful response whose embedding field is missing or
\* empty fails with the 'no embedding returned' error, for every provider,
\* and embed never returns the empty vector.
C39_NoEmptyEmbedding ==
  (/\ provider.called /\ provider.response.ok
   /\ LET e == EmbeddingField(provider.name, provider.response)
      IN  ~e.defined \/ e.value = <<>>)
    => /\ provider.outcome.raised
       /\ provider.outcome.error \in NoEmbeddingErrors

\* the part of C39 about a missing embedding field
C39_MissingEmbeddingFails ==
  (/\ provider.called /\ provider.response.ok
   /\ ~EmbeddingField(provider.name, provider.response).defined)
    => /\ provider.outcome.raised
       /\ provider.outcome.error \in NoEmbeddingErrors

\* C40: after a delete(key) that returned 1 the table holds no record
\* whose id is key: every duplicate of the key is removed.
C40_DeleteRemovesKey ==
  [][(last.op = "none" /\ last'.op = "delete" /\ ~last'.raised /\ last'.count = 1) =>
       \A r \in Records :
         r.id = last'.keys[1] => store'[cfg[last'.inst].tableName].rows[r] = 0]_vars

\* C36: a get or a search on an instance whose table does not exist (the
\* connection being established) returns the absent value, respectively
\* the empty sequence, without an embedding request, without an error and
\* without a change of the store.
C36_AbsentTableLookup ==
  [][(/\ last.op = "none" /\ last'.op \in {"get", "search"} /\ ~last'.raised
      /\ ~store[cfg[last'.inst].tableName].exists)
       => /\ last'.op = "get" => last'.res = <<Absent>>
          /\ last'.op = "search" => last'.res = <<>>
          /\ Occurrences(last'.calls, "embed") = 0
          /\ Occurrences(last'.calls, "vectorSearch") = 0
          /\ ~last'.logged
          /\ store' = store]_vars

C36_Witness ==
  /\ last.op = "search" /\ ~last.raised /\ last.res = <<>>
  /\ last.calls = <<"connect", "openTable">>
  /\ ~store[cfg[1].tableName].exists /\ ~table[1]

----------------------------------------------------------------------------
\* Properties of namespaces.

\* the values among the records the store returned to the last lookup
ReturnedValues ==
  {last.cand[j].value : j \in 1..Len(last.cand)}
    \cup {last.res[j].value : j \in {n \in 1..Len(last.res) : last.op = "search"}}
    \cup {last.res[j] : j \in {n \in 1..Len(last.res) : last.op = "get"}}

\* C7: for two instances on the same store and base table name with
\* different namespaces (or one without a namespace), no set on one
\* instance makes a get or search on the other return one of its records.
C7_NamespaceIsolation ==
  \A i, j \in Insts :
    (/\ i # j
     /\ cfg[i].namespace # cfg[j].namespace
     /\ last.op \in {"get", "search"}
     /\ last.inst = j)
      => NSValue(i) \notin ReturnedValues

\* a lookup on one instance that returned its own record while the table
\* of the other instance held a record of the same key
C7_Witness ==
  /\ last.op = "get"
  /\ last.inst = 2
  /\ last.res = <<NSValue(2)>>
  /\ Rows(1)[CacheRecord("k1", NSValue(1))] > 0
  /\ Rows(2)[CacheRecord("k1", NSValue(1))] = 0

\* C9: flush() on one instance leaves the table of every other namespace
\* unchanged: the records of every table other than the instance's own
\* are the same before and after the flush.
C9_FlushLeavesOtherTables ==
  [][(last'.op = "flush" /\ last.op = "none") =>
       \A n \in TableNames \ {cfg[last'.inst].tableName} : store'[n] = store[n]]_vars

\* a flush dropped the table of one instance while the table of the other
\* instance held records
C9_Witness ==
  /\ last.op = "flush"
  /\ ~last.logged
  /\ ~last.raised
  /\ InSeq("dropTable", last.calls)
  /\ ~store[cfg[last.inst].tableName].exists
  /\ \E j \in Insts \ {last.inst} : RowCount(Rows(j)) > 0

\* the outcome of the lookup of key k by instance i when the store
\* answered with the candidate list cand
LookupOutcome(i, k, cand) ==
  IF Len(cand) = 1
     /\ NumGE(cosineSimilarity(Embedding(k), cand[1].vector), Threshold(cfg[i].minProximity))
    THEN cand[1].value
    ELSE Absent

\* the length and order part of C6: a get(keys) that returns, returns
\* exactly Len(keys) entries and the j-th entry is the outcome of the
\* lookup of keys[j], in whatever order the lookups settled
BulkGetOrderAndLength ==
  (last.op = "getBulk" /\ ~last.raised) =>
    /\ Len(last.res) = Len(last.keys)
    /\ \A j \in 1..Len(last.keys) :
         last.res[j] = LookupOutcome(last.inst, last.keys[j], last.cand[j])

\* C6: get(keys) returns exactly Len(keys) entries, the j-th being the
\* outcome of looking up keys[j] under any interleaving of the lookups, so
\* that set([k1,k2],[v1,v2]) with two distinct keys followed by
\* get([k1,k2]), with no failure met, returns [v1,v2] in that order.
C6_BulkGetOrder ==
  /\ BulkGetOrderAndLength
  /\ (/\ last.op = "getBulk"
      /\ ~last.raised
      /\ ~last.logged
      /\ lastWrite.inst = last.inst
      /\ Len(lastWrite.keys) = 2
      /\ lastWrite.keys[1] # lastWrite.keys[2]
      /\ lastWrite.keys = last.keys)
       => last.res = lastWrite.vals

\* a bulk get whose second lookup settled first returned the values of
\* the bulk set before it, in the order of the keys
C6_Witness ==
  /\ last.op = "getBulk"
  /\ ~last.raised
  /\ last.keys = <<"k1", "k3">>
  /\ lastWrite.keys = last.keys
  /\ last.res = <<"v2", "v1">>
  /\ last.cand = <<<<CacheRecord("k1", "v2")>>, <<CacheRecord("k3", "v1")>>>>
  /\ bulk.order = <<2, 1>>

====
